---- MODULE Spec2Model ----
(***************************************************************************)
(* Model of the karting timing gateway (backend/app):                      *)
(*   - services/websocket_manager.py  ConnectionManager (fan-out manager)  *)
(*   - main.py                        websocket_endpoint, start_timing     *)
(*   - collectors/base_collector.py   BaseCollector, CollectorManager      *)
(*                                                                         *)
(* The runtime is one asyncio event loop: a coroutine runs without         *)
(* interruption from one await that suspends to the next.  Each action     *)
(* below is one such uninterrupted stretch.  A stretch of ConnectionManager*)
(* that enters an "async with self._lock" block is cut in two where the    *)
(* lock is acquired, so that the lock held by a call is a state: the first *)
(* part ends with the lock taken, the second part is the block, its end    *)
(* and what follows up to the next await.  No block contains an await, so  *)
(* the lock is free whenever a call reaches acquire() and no other         *)
(* coroutine runs while it is held.                                        *)
(*                                                                         *)
(* Text (circuit ids, error messages) is a sequence of one-character       *)
(* strings, so that strip(), lower() and the substring test are computed.  *)
(***************************************************************************)
EXTENDS Integers, Sequences, FiniteSets, TLC

VARIABLES
    circuit_connections,  \* ConnectionManager.circuit_connections: circuit_id -> set of websockets
    connection_circuits,  \* ConnectionManager.connection_circuits: websocket -> circuit_id
    last_data_cache,      \* ConnectionManager.last_data_cache: circuit_id -> message_data
    ep,                   \* websocket_endpoint, one invocation per websocket: [pc, circuit]
    ops,                  \* fan-out calls in flight: broadcast / send_status_update / send_error
    nops,                 \* number of fan-out calls issued by the control layer so far
    sent,                 \* per websocket: the last send_json made on it, with its outcome
    _lock,                \* ConnectionManager._lock: the call inside "async with self._lock", if any
    is_running,           \* BaseCollector.is_running
    is_connected,         \* BaseCollector.is_connected
    reconnect_attempts,   \* BaseCollector.reconnect_attempts
    cpc,                  \* where the task running BaseCollector.start() is
    delay,                \* the local "delay" of start(), seconds
    elapsed,              \* seconds slept since start() was called or the upstream was last connected
    status_sent,          \* the last value handle_connection_change passed to send_status_update, if any
    heartbeat_task,       \* the task running _heartbeat: "none", "sleeping", "ended" (after a ping
                          \* that failed) or "returned" (its loop condition was false)
    stalled,              \* the websockets whose peer reads no more: a send_json on them never completes
    twin_parser,          \* karting_parser of a second DriverStateManager
    twin_merged,          \* merged_states of the second DriverStateManager
    collectors,           \* CollectorManager.collectors: circuit_id -> collector
    tasks,                \* CollectorManager.tasks: circuit_id -> task
    task_state,           \* per task: "unborn", "pending", "cancelling" (cancel() requested), "done"
    running_of,           \* per collector of the manager: its is_running
    calls,                \* per caller of the manager: [op, pc, task]
    waiters,              \* per task: the callers suspended in "await task", in order
    ncreated,             \* collectors created so far
    message_count,        \* BaseCollector.message_count
    last_data,            \* BaseCollector.last_data, its mapped_data
    data_handed,          \* timing_data dicts passed to the collector's on_data callback so far
    inbox,                \* the frames that arrived on the upstream websocket and recv has not returned yet
    narrived,             \* number of frames that arrived on the upstream websocket so far
    handled,              \* the arrival numbers of the frames _process_message was given, in order
    store,                \* the circuit document of the metadata store
    payload,              \* the last message broadcast_karting_data built for the subscribers: the
                          \* karting_data message given to _broadcast_message_to_circuit or the
                          \* error message given to send_error
    last_result,          \* the dict parse_message returned to the last broadcast_karting_data call
    mappings_read,        \* "mappings" of the last broadcast_karting_data call: what its parser was built with
    active,               \* circuit_mappings of the parser of the last broadcast_karting_data call
    requests,             \* the updates the circuit document received during the last call
    last_frame,           \* raw_message of the last broadcast_karting_data call
    seen,                 \* driver -> column -> (code, value): every column received so far, latest value
    nmessages,            \* frames given to broadcast_karting_data or to the session so far
    karting_parser,       \* DriverStateManager.karting_parser
    merged_states,        \* DriverStateManager.merged_states
    static_data,          \* DriverStateManager.static_data
    current_circuit_mappings, \* DriverStateManager.current_circuit_mappings
    current_circuit_id,   \* DriverStateManager.current_circuit_id
    blob,                 \* the dict the last export_session call returned, as it is now
    exported,             \* mapping, raw table and driver records of the session when blob was exported
    text_message,         \* the characters of the last message given to parse_message as text
    text_before,          \* raw_data of the parser before that message
    text_raw,             \* raw_data of the parser that is given messages as text
    text_drivers,         \* "drivers" of the payload built from the result of that message
    pending,              \* the broadcast_karting_data call that awaits the save of its mappings, if any
    store_responds        \* whether the metadata store answers the requests it is sent

fanout_vars == <<circuit_connections, connection_circuits, last_data_cache, ep, ops, nops, sent,
                 _lock>>

collector_vars == <<is_running, is_connected, reconnect_attempts, cpc, delay, elapsed, status_sent,
                    heartbeat_task>>

manager_vars == <<collectors, tasks, task_state, running_of, calls, waiters, ncreated>>

frame_vars == <<message_count, last_data, data_handed, inbox, narrived, handled>>

karting_vars == <<store, payload, last_result, mappings_read, active, requests, last_frame, seen,
                  nmessages>>

session_vars == <<karting_parser, merged_states, static_data>>

persist_vars == <<current_circuit_mappings, current_circuit_id, blob, exported>>

channel_vars == <<stalled>>

twin_vars == <<twin_parser, twin_merged>>

text_vars == <<text_message, text_before, text_raw, text_drivers>>

write_vars == <<pending, store_responds>>

data_vars == <<frame_vars, karting_vars, session_vars, persist_vars, channel_vars, twin_vars,
              text_vars, write_vars>>

vars == <<fanout_vars, collector_vars, manager_vars, data_vars>>

----------------------------------------------------------------------------
(* Bounds of the model *)

\* Fan-out calls (broadcast, send_status_update, send_error) the control layer issues in a behaviour.
MaxOps == 1

\* Fan-out calls suspended in a send at the same time.
MaxInFlight == 2

\* Broadcasts of the late-join scenario.
MaxBroadcasts == 3

\* Collectors the manager creates in a behaviour.
MaxCollectors == 3

\* The websockets (subscriber handles) of the model.
Handles == {"wA", "wB"}

HandleIx(w) == CASE w = "wA" -> 1 [] w = "wB" -> 2

\* Circuit ids as callers pass them: two circuits, one also with padding.
RawCircuits == { <<"a">>, <<" ", "a", " ">>, <<"b">> }

\* The circuit of the one-circuit scenarios.
CircuitA == <<"a">>

\* Texts of the exceptions a send_json may raise.
ErrConnectionClosed == <<"C","o","n","n","e","c","t","i","o","n"," ","c","l","o","s","e","d">>
ErrBrokenPipe == <<"[","3","2","]"," ","B","r","o","k","e","n"," ","p","i","p","e">>
ErrConnectionReset == <<"c","o","n","n","e","c","t","i","o","n"," ","r","e","s","e","t"," ","b","y"," ","p","e","e","r">>
ErrTimeout == <<"t","i","m","e","d"," ","o","u","t">>
ErrClosedOnly == <<"c","l","o","s","e","d"," ","c","o","n","n","e","c","t","i","o","n">>

ErrorTexts == {ErrConnectionClosed, ErrBrokenPipe, ErrConnectionReset, ErrTimeout, ErrClosedOnly}

\* The texts among ErrorTexts that name connection closed, broken pipe or connection reset.
GoneTexts == {ErrConnectionClosed, ErrBrokenPipe, ErrConnectionReset}

Ok == <<>>

----------------------------------------------------------------------------
(* Text helpers: str.strip(), str.lower(), "needle in haystack" *)

Whitespace == {" ", "\t", "\n"}

RECURSIVE LStrip(_)
LStrip(s) == IF s # <<>> /\ Head(s) \in Whitespace THEN LStrip(Tail(s)) ELSE s

RECURSIVE RStrip(_)
RStrip(s) == IF s # <<>> /\ s[Len(s)] \in Whitespace THEN RStrip(SubSeq(s, 1, Len(s) - 1)) ELSE s

Strip(s) == RStrip(LStrip(s))

UpperChars == <<"A","B","C","D","E","F","G","H","I","J","K","L","M","N","O","P","Q","R","S","T","U","V","W","X","Y","Z">>
LowerChars == <<"a","b","c","d","e","f","g","h","i","j","k","l","m","n","o","p","q","r","s","t","u","v","w","x","y","z">>

LowerChar(ch) ==
    IF \E i \in 1..Len(UpperChars) : UpperChars[i] = ch
    THEN LowerChars[CHOOSE i \in 1..Len(UpperChars) : UpperChars[i] = ch]
    ELSE ch

Lower(s) == [i \in 1..Len(s) |-> LowerChar(s[i])]

Contains(hay, needle) ==
    \E i \in 1..(Len(hay) - Len(needle) + 1) : SubSeq(hay, i, i + Len(needle) - 1) = needle

\* Python truthiness of a str
Truthy(s) == s # <<>>

----------------------------------------------------------------------------
(* ConnectionManager: pure parts *)

Keywords == { <<"c","o","n","n","e","c","t","i","o","n"," ","c","l","o","s","e","d">>,
              <<"b","r","o","k","e","n"," ","p","i","p","e">>,
              <<"c","o","n","n","e","c","t","i","o","n"," ","r","e","s","e","t">> }

\* variant of connection_gone: the keywords are looked for in str(e), not in str(e).lower()
connection_gone_case_sensitive(error_text) ==
    \E keyword \in Keywords : Contains(error_text, keyword)

\* any(keyword in str(e).lower() for keyword in [...]): the subscriber is gone
connection_gone(error_text) == \E keyword \in Keywords : Contains(Lower(error_text), keyword)

\* dict without one key
DictDel(d, k) == [x \in DOMAIN d \ {k} |-> d[x]]

\* dict with d[k] = v
DictSet(d, k, v) == [x \in DOMAIN d \cup {k} |-> IF x = k THEN v ELSE d[x]]

\* connect, lines 47-54: the registry after registering websocket on circuit_id
connect_registry(cc, websocket, circuit_id) ==
    DictSet(cc, circuit_id,
            (IF circuit_id \in DOMAIN cc THEN cc[circuit_id] ELSE {}) \cup {websocket})

\* connect, line 54: the reverse map after registering
connect_reverse(rc, websocket, circuit_id) == DictSet(rc, websocket, circuit_id)

\* variant of cached_message: the replay carries the broadcast message that wrapped the
\* payload instead of the bare payload
cached_message_wrapped(cache, circuit_id) ==
    IF circuit_id \in DOMAIN cache
    THEN << [type |-> "cached_data",
             data |-> [type |-> cache[circuit_id].type, circuit_id |-> circuit_id,
                       data |-> cache[circuit_id]]] >>
    ELSE << >>

\* connect, lines 63-68: the messages replayed to the new subscriber
cached_message(cache, circuit_id) ==
    IF circuit_id \in DOMAIN cache
    THEN << [type |-> "cached_data", data |-> cache[circuit_id]] >>
    ELSE << >>

\* disconnect, lines 82-97: the registry after disconnect(websocket)
disconnect_registry(cc, rc, websocket) ==
    IF websocket \in DOMAIN rc /\ Truthy(rc[websocket])
       /\ Truthy(Strip(rc[websocket])) /\ Strip(rc[websocket]) \in DOMAIN cc
    THEN LET circuit_id == Strip(rc[websocket])
             rest == cc[circuit_id] \ {websocket}
         IN  IF rest = {} THEN DictDel(cc, circuit_id) ELSE [cc EXCEPT ![circuit_id] = rest]
    ELSE cc

\* disconnect, lines 99-100: the reverse map after disconnect(websocket)
disconnect_reverse(rc, websocket) == DictDel(rc, websocket)

\* for websocket in disconnected: await self.disconnect(websocket)
RECURSIVE disconnect_all(_, _, _)
disconnect_all(cc, rc, disconnected) ==
    IF disconnected = <<>>
    THEN [cc |-> cc, rc |-> rc]
    ELSE disconnect_all(disconnect_registry(cc, rc, Head(disconnected)),
                        disconnect_reverse(rc, Head(disconnected)),
                        Tail(disconnected))

\* _broadcast_message_to_circuit, lines 293-298
broadcast_message(circuit_id, message_data) ==
    [type |-> message_data.type, circuit_id |-> circuit_id, data |-> message_data]

\* send_status_update, lines 335-339
status_message(circuit_id, status) ==
    [type |-> "status_update", circuit_id |-> circuit_id, status |-> status]

\* send_error, lines 367-371
error_message(circuit_id, text) ==
    [type |-> "error", circuit_id |-> circuit_id, error |-> text]

\* variant of after_send_error: every failed send marks the websocket for cleanup
after_send_error_always(disconnected, websocket, error_text) == Append(disconnected, websocket)

\* the classification of a failed send, lines 308-316 / 346-350 / 378-382
after_send_error(disconnected, websocket, error_text) ==
    IF connection_gone(error_text) THEN Append(disconnected, websocket) ELSE disconnected

----------------------------------------------------------------------------
(* ConnectionManager._lock, an asyncio.Lock.  The variable names the call that is *)
(* inside an "async with self._lock" block: connect(websocket) or                  *)
(* disconnect(websocket), or the fan-out call of slot op (_broadcast_message_to_   *)
(* circuit, send_status_update, send_error).                                       *)

\* the lock is not held
Unlocked == [call |-> "none", websocket |-> "", op |-> 0]

\* the call that holds the lock
Holder(call, websocket, op) == [call |-> call, websocket |-> websocket, op |-> op]

\* __aenter__ of "async with self._lock" by a call that has reached its block (ready):
\* the lock is free, acquire() returns without suspension and the call is inside the
\* block
Acquire(holder, ready) ==
    /\ ready
    /\ _lock = Unlocked
    /\ _lock' = holder
    /\ UNCHANGED <<circuit_connections, connection_circuits, last_data_cache, ep, ops, nops, sent,
                   collector_vars, manager_vars, data_vars>>

\* the variant in which the block does not end before the call suspends
release_after_await(holder) == holder

\* __aexit__ of the "async with self._lock" block of a call, Lock.release(): it comes
\* before the next await of the call
release(holder) == Unlocked

----------------------------------------------------------------------------
(* Fan-out calls in flight *)

MaxCalls == IF MaxOps > MaxBroadcasts THEN MaxOps ELSE MaxBroadcasts

OpIds == 1..(MaxCalls + Cardinality(Handles))

\* the slot of the send_status_update that websocket_endpoint issues for websocket w
EndpointOp(w) == MaxCalls + HandleIx(w)

\* "gone" is a history field: the websockets of this call whose send failed with a
\* text of GoneTexts
IdleOp == [kind |-> "none", pc |-> "idle", circuit |-> <<>>, data |-> [type |-> "none"],
           todo |-> {}, disconnected |-> <<>>, gone |-> {}]

DoneOp == [IdleOp EXCEPT !.pc = "done"]

InFlight(o) == ops[o].pc = "send"

Room == Cardinality({o \in OpIds : InFlight(o)}) < MaxInFlight

\* the message a call sends to each websocket of its copy
op_message(kind, circuit_id, data) ==
    CASE kind = "broadcast" -> broadcast_message(circuit_id, data)
      [] kind = "status"    -> status_message(circuit_id, data)
      [] kind = "error"     -> error_message(circuit_id, data.text)

\* sent[w] observes the last send_json on websocket w: the message and whether it arrived
Log(w, msg, outcome) == [sent EXCEPT ![w] = <<[msg |-> msg, ok |-> (outcome = Ok)]>>]

\* a send on a websocket whose peer has gone cannot succeed
Outcomes(w) == IF ep[w].pc = "closed" THEN ErrorTexts ELSE {Ok} \cup ErrorTexts

\* variant of send_one: a send that raised ends the loop
send_one_or_stop(op, w, outcome) ==
    [op EXCEPT !.todo = IF outcome = Ok THEN @ \ {w} ELSE {},
               !.disconnected = IF outcome = Ok THEN @ ELSE after_send_error(@, w, outcome),
               !.gone = IF outcome \in GoneTexts THEN @ \cup {w} ELSE @]

\* one iteration of "for websocket in connections": send_json(message) to w, and the
\* except branch when it raised
send_one(op, w, outcome) ==
    [op EXCEPT !.todo = @ \ {w},
               !.disconnected = IF outcome = Ok THEN @ ELSE after_send_error(@, w, outcome),
               !.gone = IF outcome \in GoneTexts THEN @ \cup {w} ELSE @]

\* variant of begin_sends: the copy holds every attached websocket, of any circuit
begin_sends_to_all(o, kind, circuit_id, data, w, outcome) ==
    LET op == [kind |-> kind, pc |-> "send", circuit |-> circuit_id, data |-> data,
               todo |-> DOMAIN connection_circuits, disconnected |-> <<>>, gone |-> {}]
    IN  /\ w \in op.todo
        /\ outcome \in Outcomes(w)
        /\ ops' = [ops EXCEPT ![o] = send_one(op, w, outcome)]
        /\ sent' = Log(w, op_message(kind, circuit_id, data), outcome)

\* the copy "connections = list(self.circuit_connections[circuit_id])" and the first
\* send of the loop, which starts in the same stretch
begin_sends(o, kind, circuit_id, data, w, outcome) ==
    LET op == [kind |-> kind, pc |-> "send", circuit |-> circuit_id, data |-> data,
               todo |-> circuit_connections[circuit_id], disconnected |-> <<>>, gone |-> {}]
    IN  /\ w \in op.todo
        /\ outcome \in Outcomes(w)
        /\ ops' = [ops EXCEPT ![o] = send_one(op, w, outcome)]
        /\ sent' = Log(w, op_message(kind, circuit_id, data), outcome)

\* send_status_update / send_error up to the first suspension: return when the circuit
\* has no subscriber set, else copy and start sending
copy_and_send(o, kind, circuit_id, data, w, outcome) ==
    /\ _lock = Holder(kind, "", o)
    /\ _lock' = release(Holder(kind, "", o))
    /\ IF circuit_id \notin DOMAIN circuit_connections
       THEN ops' = [ops EXCEPT ![o] = DoneOp] /\ sent' = sent
       ELSE begin_sends(o, kind, circuit_id, data, w, outcome)

\* send_status_update / send_error is called by the control layer and enters its block
CallEnters(kind) == Acquire(Holder(kind, "", nops + 1), nops < MaxOps /\ Room)

----------------------------------------------------------------------------
(* websocket_endpoint (main.py) and ConnectionManager.connect / disconnect      *)
(* ep[w].pc: "new" (no request yet), "accepting" (in connect, accept() awaited), *)
(* "registering" (accept() returned, connect is inside its block), "refused"    *)
(* (accept() raised, connect returned, the endpoint is inside the block of      *)
(* send_status_update), "replay" (in connect, registered, replay send awaited;  *)
(* then connect returned, up to the send of the status update), "loop" (receive *)
(* loop, in receive_text), "pong" (receive loop, the send of a pong awaited),    *)
(* "closed" (endpoint returned).                                                 *)

\* websocket_endpoint is invoked for a new websocket: connect, up to "await
\* websocket.accept()"
ConnectBegin(w, raw) ==
    /\ ep[w].pc = "new"
    /\ _lock = Unlocked
    /\ ep' = [ep EXCEPT ![w] = [pc |-> "accepting", circuit |-> raw]]
    /\ UNCHANGED <<circuit_connections, connection_circuits, last_data_cache, ops, nops, sent, _lock,
                   collector_vars, manager_vars, data_vars>>

\* connect: accept() returned and connect enters its block
AcceptReturns(w) ==
    /\ ep[w].pc = "accepting"
    /\ _lock = Unlocked
    /\ _lock' = Holder("connect", w, 0)
    /\ ep' = [ep EXCEPT ![w].pc = "registering"]
    /\ UNCHANGED <<circuit_connections, connection_circuits, last_data_cache, ops, nops, sent,
                   collector_vars, manager_vars, data_vars>>

\* connect: accept() raised: connect returns without registering; the endpoint goes on
\* and send_status_update enters its block
AcceptRaises(w) ==
    /\ ep[w].pc = "accepting"
    /\ Room
    /\ _lock = Unlocked
    /\ _lock' = Holder("status", "", EndpointOp(w))
    /\ ep' = [ep EXCEPT ![w].pc = "refused"]
    /\ UNCHANGED <<circuit_connections, connection_circuits, last_data_cache, ops, nops, sent,
                   collector_vars, manager_vars, data_vars>>

\* connect inside its block: register, leave the block, then replay the cache
connect(w, raw, outcome) ==
    /\ _lock = Holder("connect", w, 0)
    /\ _lock' = release(Holder("connect", w, 0))
    /\ LET circuit_id == Strip(raw)
           replay == cached_message(last_data_cache, circuit_id)
       IN  /\ circuit_connections' = connect_registry(circuit_connections, w, circuit_id)
           /\ connection_circuits' = connect_reverse(connection_circuits, w, circuit_id)
           /\ IF replay = <<>>
              THEN outcome = Ok /\ sent' = sent
              ELSE sent' = Log(w, replay[1], outcome)
           /\ ep' = [ep EXCEPT ![w] = [pc |-> "replay", circuit |-> raw]]
    /\ UNCHANGED <<last_data_cache, ops, nops, collector_vars, manager_vars, data_vars>>

\* websocket_endpoint: a new websocket is connected
ConnectRegister(w, raw, outcome) ==
    /\ ep[w].pc = "registering"
    /\ ep[w].circuit = raw
    /\ connect(w, raw, outcome)

\* websocket_endpoint after connect: send_status_update(circuit_id, {"timing_connected":
\* True}), up to its first suspension
endpoint_status(w, raw, to, outcome) ==
    /\ Room
    /\ copy_and_send(EndpointOp(w), "status", Strip(raw), [timing_connected |-> TRUE],
                     to, outcome)
    /\ ep' = [ep EXCEPT ![w] = [pc |-> "loop", circuit |-> <<>>]]
    /\ UNCHANGED <<circuit_connections, connection_circuits, last_data_cache, nops, collector_vars, manager_vars, data_vars>>

\* variant of connect with accept() raised: the websocket is registered all the same
ConnectAcceptFailed_registers(w, raw, to, outcome) ==
    /\ ep[w].pc = "refused"
    /\ ep[w].circuit = raw
    /\ _lock = Holder("status", "", EndpointOp(w))
    /\ _lock' = release(Holder("status", "", EndpointOp(w)))
    /\ circuit_connections' = connect_registry(circuit_connections, w, Strip(raw))
    /\ connection_circuits' = connect_reverse(connection_circuits, w, Strip(raw))
    /\ ep' = [ep EXCEPT ![w] = [pc |-> "loop", circuit |-> <<>>]]
    /\ UNCHANGED <<last_data_cache, ops, nops, sent, collector_vars, manager_vars, data_vars>>

\* accept() had raised and connect returned without registering: the status update of
\* the endpoint
ConnectAcceptFailed(w, raw, to, outcome) ==
    /\ ep[w].pc = "refused"
    /\ ep[w].circuit = raw
    /\ endpoint_status(w, raw, to, outcome)

\* the replay of connect is over and connect returns; the endpoint goes on and
\* send_status_update enters its block
ReplayOver(w) == Acquire(Holder("status", "", EndpointOp(w)), ep[w].pc = "replay" /\ Room)

\* connect has returned after the replay: the status update of the endpoint
ConnectReturn(w, to, outcome) ==
    /\ ep[w].pc = "replay"
    /\ endpoint_status(w, ep[w].circuit, to, outcome)

\* texts a client sends on its websocket: "ping", a JSON ping, a JSON message of another
\* type, and a text that starts with "{" and is no JSON
TextPing == <<"p", "i", "n", "g">>
JsonPing == <<"{", "\"", "t", "y", "p", "e", "\"", ":", " ", "\"", "p", "i", "n", "g", "\"", "}">>
JsonStop == <<"{", "\"", "t", "y", "p", "e", "\"", ":", " ", "\"", "s", "t", "o", "p", "\"", "}">>
JsonBroken == <<"{", "p", "i", "n", "g">>

ClientTexts == {TextPing, JsonPing, JsonStop, JsonBroken}

\* json.loads on the texts of ClientTexts that start with "{": <<dict>>, or << >> when
\* it raises
json_loads(message) ==
    CASE message = JsonPing -> << [type |-> "ping"] >>
      [] message = JsonStop -> << [type |-> "stop"] >>
      [] OTHER -> << >>

\* "data" of the receive loop, line 437: json.loads(message) if message.startswith('{')
\* else {"type": "ping"}; << >> when json.loads raises, which the except branch of line
\* 443 logs
client_data(message) ==
    IF message # << >> /\ Head(message) = "{" THEN json_loads(message) ELSE << [type |-> "ping"] >>

\* datetime.now().isoformat(), settings.get_current_timestamp()
Now == "now"

\* the message of the receive loop, line 441
pong_message == [type |-> "pong", timestamp |-> Now]

\* websocket_endpoint, one turn of the receive loop: receive_text() returned message.
\* For a ping the pong is sent on the websocket of the endpoint and the endpoint awaits
\* that send; a send that raises is caught and logged at line 443, like a text that is
\* no JSON, and the websocket stays registered.  Any other message sends nothing and the
\* endpoint is in receive_text again.
ReceiveText(w, message, outcome) ==
    /\ ep[w].pc = "loop"
    /\ ~InFlight(EndpointOp(w))
    /\ _lock = Unlocked
    /\ LET data == client_data(message)
       IN  IF data # << >> /\ "type" \in DOMAIN data[1] /\ data[1].type = "ping"
           THEN /\ sent' = Log(w, pong_message, outcome)
                /\ ep' = [ep EXCEPT ![w].pc = "pong"]
           ELSE /\ outcome = Ok
                /\ UNCHANGED <<sent, ep>>
    /\ UNCHANGED <<circuit_connections, connection_circuits, last_data_cache, ops, nops, _lock,
                   collector_vars, manager_vars, data_vars>>

\* the send of the pong is over, with or without an exception: the endpoint is in
\* receive_text again
PongOver(w) ==
    /\ ep[w].pc = "pong"
    /\ _lock = Unlocked
    /\ ep' = [ep EXCEPT ![w].pc = "loop"]
    /\ UNCHANGED <<circuit_connections, connection_circuits, last_data_cache, ops, nops, sent, _lock,
                   collector_vars, manager_vars, data_vars>>

\* websocket_endpoint: the receive loop ends (receive_text raised, the peer is gone);
\* finally: disconnect(websocket) enters its block
LoopEnds(w) ==
    Acquire(Holder("disconnect", w, 0), ep[w].pc = "loop" /\ ~InFlight(EndpointOp(w)))

\* disconnect(websocket) of the endpoint inside its block; the endpoint returns
EndpointClose(w) ==
    /\ ep[w].pc = "loop"
    /\ ~InFlight(EndpointOp(w))
    /\ _lock = Holder("disconnect", w, 0)
    /\ _lock' = release(Holder("disconnect", w, 0))
    /\ circuit_connections' = disconnect_registry(circuit_connections, connection_circuits, w)
    /\ connection_circuits' = disconnect_reverse(connection_circuits, w)
    /\ ep' = [ep EXCEPT ![w] = [pc |-> "closed", circuit |-> <<>>]]
    /\ UNCHANGED <<last_data_cache, ops, nops, sent, collector_vars, manager_vars, data_vars>>

----------------------------------------------------------------------------
(* ConnectionManager: broadcast, send_status_update, send_error *)

\* _broadcast_message_to_circuit(raw, message_data), lines 261-305.  Its first statement
\* awaits asyncio.sleep(0.01) before anything shared is read: the call is modelled from
\* the moment the sleep ends, where it enters its block.
BroadcastEnters(limit) == Acquire(Holder("broadcast", "", nops + 1), nops < limit /\ Room)

\* _broadcast_message_to_circuit inside its block: copy the subscribers, cache the
\* payload, leave the block, start sending.
broadcast(raw, limit, w, outcome) ==
    /\ nops < limit
    /\ Room
    /\ nops' = nops + 1
    /\ _lock = Holder("broadcast", "", nops + 1)
    /\ _lock' = release(Holder("broadcast", "", nops + 1))
    /\ LET circuit_id == Strip(raw)
           message_data == [type |-> "karting_data", message_count |-> nops + 1]
       IN  IF circuit_id \notin DOMAIN circuit_connections
           THEN /\ ops' = [ops EXCEPT ![nops + 1] = DoneOp]
                /\ UNCHANGED <<circuit_connections, last_data_cache, sent>>
           ELSE IF circuit_connections[circuit_id] = {}
           THEN /\ ops' = [ops EXCEPT ![nops + 1] = DoneOp]
                /\ circuit_connections' = DictDel(circuit_connections, circuit_id)
                /\ UNCHANGED <<last_data_cache, sent>>
           ELSE /\ begin_sends(nops + 1, "broadcast", circuit_id, message_data, w, outcome)
                /\ last_data_cache' = DictSet(last_data_cache, circuit_id, message_data)
                /\ UNCHANGED circuit_connections
    /\ UNCHANGED <<connection_circuits, ep, collector_vars, manager_vars, data_vars>>

Broadcast(raw, w, outcome) == broadcast(raw, MaxOps, w, outcome)

\* send_status_update is called (collector callback, stop_timing)
SendStatusUpdate(raw, connected, w, outcome) ==
    /\ nops < MaxOps
    /\ Room
    /\ nops' = nops + 1
    /\ copy_and_send(nops + 1, "status", Strip(raw), [timing_connected |-> connected], w, outcome)
    /\ UNCHANGED <<circuit_connections, connection_circuits, last_data_cache, ep, collector_vars, manager_vars, data_vars>>

\* send_error is called (collector callback, broadcast_karting_data)
SendError(raw, w, outcome) ==
    /\ nops < MaxOps
    /\ Room
    /\ nops' = nops + 1
    /\ copy_and_send(nops + 1, "error", Strip(raw), [text |-> "collector error"], w, outcome)
    /\ UNCHANGED <<circuit_connections, connection_circuits, last_data_cache, ep, collector_vars, manager_vars, data_vars>>

\* the previous send is over; next iteration of "for websocket in connections"
Send(o, w, outcome) ==
    /\ _lock = Unlocked
    /\ ops[o].pc = "send"
    /\ w \in ops[o].todo
    /\ outcome \in Outcomes(w)
    /\ sent' = Log(w, op_message(ops[o].kind, ops[o].circuit, ops[o].data), outcome)
    /\ ops' = [ops EXCEPT ![o] = send_one(@, w, outcome)]
    /\ UNCHANGED <<circuit_connections, connection_circuits, last_data_cache, ep, nops, _lock, collector_vars, manager_vars, data_vars>>

\* the last send of a call is over and a send had failed with a text of connection_gone:
\* disconnect(websocket) of the first websocket of "disconnected" enters its block
CleanupEnters(o) ==
    Acquire(Holder("disconnect", ops[o].disconnected[1], 0),
            ops[o].pc = "send" /\ ops[o].todo = {} /\ ops[o].disconnected # << >>)

\* the last send is over: disconnect every websocket of "disconnected" (each disconnect
\* enters and leaves its block, without an await), return
Finish(o) ==
    /\ ops[o].pc = "send"
    /\ ops[o].todo = {}
    /\ LET after == disconnect_all(circuit_connections, connection_circuits, ops[o].disconnected)
       IN  /\ circuit_connections' = after.cc
           /\ connection_circuits' = after.rc
    /\ ops' = [ops EXCEPT ![o] = DoneOp]
    /\ IF ops[o].disconnected = << >>
       THEN _lock = Unlocked /\ UNCHANGED _lock
       ELSE /\ _lock = Holder("disconnect", ops[o].disconnected[1], 0)
            /\ _lock' = release(Holder("disconnect", ops[o].disconnected[1], 0))
    /\ UNCHANGED <<last_data_cache, ep, nops, sent, collector_vars, manager_vars, data_vars>>

----------------------------------------------------------------------------
(* BaseCollector (collectors/base_collector.py) with the callbacks main.py sets: *)
(* on_error -> send_error, on_connection_change -> send_status_update with       *)
(* timing_connected = connected.  cpc is where the task running start() is:      *)
(* "idle" (created, not yet run), "connecting" (in websockets.connect),          *)
(* "reporting_connected" (in the connection callback of line 109, before the     *)
(* heartbeat task and recv), "streaming" (in recv), "reporting_lost" (in the     *)
(* connection callback of the finally block, line 122, after recv raised),       *)
(* "reporting_cancelled" (in the same callback after CancelledError in recv),    *)
(* "handling_error" (in the error callback), "sleeping" (in                      *)
(* asyncio.sleep(delay)), "broke" (start() left its loop by break), "cancelled"  *)
(* (the task ended with CancelledError), "processing_error" (in the error        *)
(* callback that the except branch of _process_message awaits, the connection    *)
(* open).  The fields are those of the collector CollectorManager creates first: *)
(* its task is task 1 of the manager, running_of[1] is its is_running.  The      *)
(* collectors created after it are followed through their task alone.            *)

\* the collector the manager creates first
First == 1

\* settings.WS_RECONNECT_DELAY
WS_RECONNECT_DELAY == 5

\* settings.WS_MAX_RECONNECT_ATTEMPTS
WS_MAX_RECONNECT_ATTEMPTS == 10

\* Python min(a, b)
min(a, b) == IF a <= b THEN a ELSE b

\* start(), line 96: the delay computed after the counter was incremented to attempts
reconnect_delay(attempts) == min(WS_RECONNECT_DELAY * (2 ^ attempts), 60)

\* variant of handle_connection_change: the value reported is always "connected"
handle_connection_change_stale(connected) == << TRUE >>

\* main.py handle_connection_change(connected): send_status_update(circuit_id,
\* {"timing_connected": connected}); the value handed to the fan-out manager
handle_connection_change(connected) == << connected >>

\* BaseCollector.get_status (the fields the control layer reads)
get_status ==
    [is_running |-> is_running, is_connected |-> is_connected,
     reconnect_attempts |-> reconnect_attempts]

\* BaseCollector.__init__
InitCollector ==
    /\ is_running = FALSE
    /\ is_connected = FALSE
    /\ reconnect_attempts = 0
    /\ cpc = "idle"
    /\ delay = 0
    /\ elapsed = 0
    /\ status_sent = << >>
    /\ heartbeat_task = "none"

\* the task of the collector, created by start_collector, first runs start():
\* lines 76-83
CollectorStart ==
    /\ task_state[First] = "pending"
    /\ cpc = "idle"
    /\ ~is_running
    /\ is_running' = TRUE
    /\ reconnect_attempts' = 0
    /\ cpc' = "connecting"
    /\ task_state' = [task_state EXCEPT ![First] = "running"]
    /\ running_of' = [running_of EXCEPT ![First] = TRUE]
    /\ UNCHANGED <<is_connected, delay, elapsed, status_sent, heartbeat_task,
                   collectors, tasks, calls, waiters, ncreated, fanout_vars, data_vars>>

\* websockets.connect raises: except branch of start(), up to the await of the callback
ConnectFails ==
    /\ cpc = "connecting"
    /\ is_running
    /\ cpc' = "handling_error"
    /\ UNCHANGED <<is_running, is_connected, reconnect_attempts, delay, elapsed, status_sent,
                   heartbeat_task, fanout_vars, manager_vars, data_vars>>

\* variant of ConnectSucceeds: the attempt counter is kept across a successful connection
ConnectSucceeds_keeps_counter ==
    /\ cpc = "connecting"
    /\ is_running
    /\ is_connected' = TRUE
    /\ status_sent' = handle_connection_change(TRUE)
    /\ elapsed' = 0
    /\ cpc' = "reporting_connected"
    /\ UNCHANGED <<is_running, reconnect_attempts, delay, heartbeat_task,
                   fanout_vars, manager_vars, data_vars>>

\* websockets.connect succeeds: _connect_and_collect lines 106-109, up to the await of
\* the connection callback
ConnectSucceeds ==
    /\ cpc = "connecting"
    /\ is_running
    /\ is_connected' = TRUE
    /\ reconnect_attempts' = 0
    /\ status_sent' = handle_connection_change(TRUE)
    /\ elapsed' = 0
    /\ cpc' = "reporting_connected"
    /\ UNCHANGED <<is_running, delay, heartbeat_task, fanout_vars, manager_vars, data_vars>>

\* the connection callback returned: lines 112-116, the heartbeat task is created and the
\* loop calls recv
ConnectReported ==
    /\ cpc = "reporting_connected"
    /\ is_running
    /\ heartbeat_task' = "sleeping"
    /\ cpc' = "streaming"
    /\ UNCHANGED <<is_running, is_connected, reconnect_attempts, delay, elapsed, status_sent,
                   fanout_vars, manager_vars, data_vars>>

\* recv raises (upstream lost; recv returns the frames that wait before it raises):
\* finally block lines 119-122 (the heartbeat task is cancelled), up to the await of the
\* connection callback
StreamFails ==
    /\ cpc = "streaming"
    /\ is_running
    /\ inbox = << >>
    /\ is_connected' = FALSE
    /\ status_sent' = handle_connection_change(FALSE)
    /\ heartbeat_task' = "none"
    /\ cpc' = "reporting_lost"
    /\ UNCHANGED <<is_running, reconnect_attempts, delay, elapsed, fanout_vars, manager_vars, data_vars>>

\* the connection callback of the finally block returned: the exception reaches the
\* except branch of start(), lines 88-91, up to the await of the error callback
LossReported ==
    /\ cpc = "reporting_lost"
    /\ is_running
    /\ cpc' = "handling_error"
    /\ UNCHANGED <<is_running, is_connected, reconnect_attempts, delay, elapsed, status_sent,
                   heartbeat_task, fanout_vars, manager_vars, data_vars>>

\* the error callback returned: start() lines 94-100; with break start() returns and
\* the task is done
AfterError ==
    /\ cpc = "handling_error"
    /\ is_running
    /\ IF is_running /\ reconnect_attempts < WS_MAX_RECONNECT_ATTEMPTS
       THEN /\ reconnect_attempts' = reconnect_attempts + 1
            /\ delay' = reconnect_delay(reconnect_attempts + 1)
            /\ cpc' = "sleeping"
            /\ UNCHANGED task_state
       ELSE /\ cpc' = "broke"
            /\ task_state' = [task_state EXCEPT ![First] = "done"]
            /\ UNCHANGED <<reconnect_attempts, delay>>
    /\ UNCHANGED <<is_running, is_connected, elapsed, status_sent, heartbeat_task,
                   collectors, tasks, running_of, calls, waiters, ncreated,
                   fanout_vars, data_vars>>

\* asyncio.sleep(delay) is over: back to "while self.is_running"
Wake ==
    /\ cpc = "sleeping"
    /\ is_running
    /\ elapsed' = elapsed + delay
    /\ cpc' = "connecting"
    /\ UNCHANGED <<is_running, is_connected, reconnect_attempts, delay, status_sent,
                   heartbeat_task, fanout_vars, manager_vars, data_vars>>

\* the awaits of _connect_and_collect inside the receive loop: recv, and the error
\* callback of _process_message
InReceiveLoop == cpc \in {"streaming", "processing_error"}

\* task.cancel() of stop_collector is delivered: CancelledError is raised at the await
\* where the task is suspended (before its first step when it has not run yet).  Inside
\* the receive loop the finally block of _connect_and_collect runs, lines 119-122
\* (heartbeat_task.cancel(): the heartbeat task ends at its next step, which the event
\* loop runs before anything the end of this task makes ready), up to the await of the
\* connection callback; at the other awaits the task ends.
Cancelled ==
    /\ task_state[First] = "cancelling"
    /\ cpc \in {"idle", "connecting", "reporting_connected", "streaming", "processing_error",
               "reporting_lost", "handling_error", "sleeping"}
    /\ ~is_running
    /\ status_sent' = IF InReceiveLoop THEN handle_connection_change(FALSE) ELSE status_sent
    /\ heartbeat_task' = IF InReceiveLoop THEN "none" ELSE heartbeat_task
    /\ is_connected' = IF InReceiveLoop THEN FALSE ELSE is_connected
    /\ cpc' = IF InReceiveLoop THEN "reporting_cancelled" ELSE "cancelled"
    /\ task_state' = IF InReceiveLoop THEN task_state
                     ELSE [task_state EXCEPT ![First] = "done"]
    /\ UNCHANGED <<is_running, reconnect_attempts, delay, elapsed,
                   collectors, tasks, running_of, calls, waiters, ncreated,
                   fanout_vars, data_vars>>

\* the connection callback of the finally block returned while CancelledError is on its
\* way: the task ends
CancelReported ==
    /\ cpc = "reporting_cancelled"
    /\ cpc' = "cancelled"
    /\ task_state' = [task_state EXCEPT ![First] = "done"]
    /\ UNCHANGED <<is_running, is_connected, reconnect_attempts, delay, elapsed, status_sent,
                   heartbeat_task, collectors, tasks, running_of, calls, waiters, ncreated,
                   fanout_vars, data_vars>>

\* _heartbeat: websocket.ping() raises while the connection is open: the except branch
\* logs the error and the heartbeat task ends; nothing of the collector changes.
\* (A ping that succeeds changes nothing and goes back to asyncio.sleep.)
HeartbeatFails ==
    /\ heartbeat_task = "sleeping"
    /\ InReceiveLoop
    /\ is_running
    /\ is_connected
    /\ heartbeat_task' = "ended"
    /\ UNCHANGED <<is_running, is_connected, reconnect_attempts, cpc, delay, elapsed, status_sent,
                   fanout_vars, manager_vars, data_vars>>

\* _heartbeat wakes from its sleep after stop(): is_connected is False, no ping is sent,
\* the condition of its loop is false and the heartbeat task returns
HeartbeatEnds ==
    /\ heartbeat_task = "sleeping"
    /\ ~is_running
    /\ heartbeat_task' = "returned"
    /\ UNCHANGED <<is_running, is_connected, reconnect_attempts, cpc, delay, elapsed, status_sent,
                   fanout_vars, manager_vars, data_vars>>

\* the steps of the task of the collector and of its heartbeat task
NextTask ==
    \/ CollectorStart
    \/ ConnectFails
    \/ ConnectSucceeds
    \/ ConnectReported
    \/ StreamFails
    \/ LossReported
    \/ AfterError
    \/ Wake
    \/ Cancelled
    \/ CancelReported
    \/ HeartbeatFails
    \/ HeartbeatEnds

----------------------------------------------------------------------------
(* Frames: the receive loop of BaseCollector._connect_and_collect.  A frame is     *)
(* represented by the mapped_data its parse yields; timestamps and counters of the *)
(* timing_data dict play no part in what follows.                                  *)

\* Frames one upstream connection delivers in a behaviour.
MaxFrames == 4

None == "None"

\* mapped_data of the frames the upstream sends
ParsedFrames == {"m1", "m2"}

\* what start_timing passes to set_callbacks as on_data: the argument is left out, so
\* the default of set_callbacks applies
on_data == None

\* BaseCollector.set_callbacks
on_data_callback == on_data

\* BaseCollector._has_data_changed
_has_data_changed(last, new_mapped) == IF last = None THEN TRUE ELSE last # new_mapped

\* BaseCollector._handle_data: the callback is awaited when there is one, else a warning
\* is logged
_handle_data(handed) == IF on_data_callback # None THEN handed + 1 ELSE handed

\* BaseCollector.__init__, data caching
InitFrames ==
    /\ message_count = 0
    /\ last_data = None
    /\ data_handed = 0
    /\ inbox = << >>
    /\ narrived = 0
    /\ handled = << >>

\* variant of recv: the frame that arrived last
recv_newest(queue) == queue[Len(queue)]

\* websocket.recv() with frames waiting: the frame that arrived first
recv(queue) == Head(queue)

\* what recv leaves waiting
after_recv(queue) == SelectSeq(queue, LAMBDA f : f # recv(queue))

\* the upstream sends a frame on the open connection; it waits until the loop of
\* _connect_and_collect calls recv
FrameArrives(mapped_data) ==
    /\ InReceiveLoop
    /\ narrived < MaxFrames
    /\ narrived' = narrived + 1
    /\ inbox' = Append(inbox, [seq |-> narrived + 1, data |-> mapped_data])
    /\ UNCHANGED <<message_count, last_data, data_handed, handled,
                   fanout_vars, collector_vars, manager_vars, channel_vars, twin_vars, text_vars, write_vars, karting_vars, session_vars, persist_vars>>

\* recv returns a frame: _process_message, awaited by the loop before its next recv.
\* message_count is incremented first.  When the body of the try raises (raises), nothing
\* else is assigned and the except branch awaits the error callback; else the frame is
\* handed on if should_send, and _handle_data, with no data callback, awaits nothing: the
\* loop goes on to its next recv.  After stop() and task.cancel() the next step of the
\* task raises CancelledError at its await, also when a frame is waiting: recv hands a
\* frame to a running collector only.
ProcessMessage(mapped_data, raises) ==
    /\ cpc = "streaming"
    /\ is_running
    /\ message_count < MaxFrames
    /\ inbox # << >>
    /\ recv(inbox).data = mapped_data
    /\ inbox' = after_recv(inbox)
    /\ handled' = Append(handled, recv(inbox).seq)
    /\ narrived' = narrived
    /\ message_count' = message_count + 1
    /\ LET should_send == message_count + 1 <= 3 \/ _has_data_changed(last_data, mapped_data)
       IN  IF ~raises /\ should_send
           THEN /\ last_data' = mapped_data
                /\ data_handed' = _handle_data(data_handed)
           ELSE UNCHANGED <<last_data, data_handed>>
    /\ cpc' = IF raises THEN "processing_error" ELSE cpc
    /\ UNCHANGED <<is_running, is_connected, reconnect_attempts, delay, elapsed, status_sent,
                   heartbeat_task, fanout_vars, manager_vars, channel_vars, twin_vars,
                   text_vars, write_vars, karting_vars, session_vars, persist_vars>>

\* the error callback awaited by the except branch of _process_message returned: the
\* loop goes on to its next recv
ErrorHandled ==
    /\ cpc = "processing_error"
    /\ is_running
    /\ cpc' = "streaming"
    /\ UNCHANGED <<is_running, is_connected, reconnect_attempts, delay, elapsed, status_sent,
                   heartbeat_task, fanout_vars, manager_vars, data_vars>>

\* the frames of the open connection and their processing
NextReceive ==
    \/ \E mapped_data \in ParsedFrames : FrameArrives(mapped_data)
    \/ \E mapped_data \in ParsedFrames, raises \in BOOLEAN : ProcessMessage(mapped_data, raises)
    \/ ErrorHandled

----------------------------------------------------------------------------
(* CollectorManager (collectors/base_collector.py), one circuit.  A caller is a  *)
(* coroutine that calls start_collector or stop_collector once; it suspends only *)
(* in "await task" of stop_collector, and only when the task is not done yet.    *)
(* collector.stop() and task.cancel() of stop_collector act on the collector and *)
(* the task in self.collectors and self.tasks; when that is the first collector, *)
(* its is_running and is_connected are cleared with the call and its task ends   *)
(* by the steps above.                                                           *)

Callers == {"r1", "r2", "r3"}

CollectorIds == 1..MaxCollectors

\* the manager's fields and what it reaches through them, as one value
Mgr == [collectors |-> collectors, tasks |-> tasks, task_state |-> task_state,
        running_of |-> running_of, ncreated |-> ncreated]

SetMgr(m) ==
    /\ collectors' = m.collectors
    /\ tasks' = m.tasks
    /\ task_state' = m.task_state
    /\ running_of' = m.running_of
    /\ ncreated' = m.ncreated

\* a task that has been created, has not finished and has not been asked to cancel
Live(k) == task_state[k] \in {"pending", "running"}

\* stop_collector lines 403-410: collector.stop(), task.cancel(); "await" is the task the
\* caller must wait for (0: the task is already done, no suspension)
stop_collector_begin(m, circuit_id) ==
    LET k  == m.collectors[circuit_id]
        m1 == [m EXCEPT !.running_of[k] = FALSE]
    IN  IF circuit_id \in DOMAIN m.tasks
        THEN LET t  == m.tasks[circuit_id]
                 m2 == IF m1.task_state[t] \in {"pending", "running"}
                       THEN [m1 EXCEPT !.task_state[t] = "cancelling"]
                       ELSE m1
             IN  [m |-> m2, await |-> IF m2.task_state[t] = "done" THEN 0 ELSE t,
                  has_task |-> TRUE]
        ELSE [m |-> m1, await |-> 0, has_task |-> FALSE]

\* variant of stop_collector_end: the collector stays in self.collectors
stop_collector_end_keeps(m, circuit_id, has_task) ==
    IF has_task /\ circuit_id \notin DOMAIN m.tasks
    THEN [m |-> m, raised |-> TRUE]
    ELSE [m |-> IF has_task THEN [m EXCEPT !.tasks = DictDel(m.tasks, circuit_id)] ELSE m,
          raised |-> FALSE]

\* stop_collector lines 411-416, after "await task": del self.tasks[circuit_id], then
\* del self.collectors[circuit_id]; del of a missing key raises KeyError
stop_collector_end(m, circuit_id, has_task) ==
    IF has_task /\ circuit_id \notin DOMAIN m.tasks
    THEN [m |-> m, raised |-> TRUE]
    ELSE LET m1 == IF has_task THEN [m EXCEPT !.tasks = DictDel(m.tasks, circuit_id)] ELSE m
         IN  IF circuit_id \notin DOMAIN m1.collectors
             THEN [m |-> m1, raised |-> TRUE]
             ELSE [m |-> [m1 EXCEPT !.collectors = DictDel(m1.collectors, circuit_id)],
                   raised |-> FALSE]

\* start_collector lines 390-396: a new collector and its task, both stored
create_collector(m, circuit_id) ==
    LET k == m.ncreated + 1
    IN  [m EXCEPT !.ncreated = k,
                  !.collectors = DictSet(m.collectors, circuit_id, k),
                  !.tasks = DictSet(m.tasks, circuit_id, k),
                  !.task_state[k] = "pending",
                  !.running_of[k] = FALSE]

\* the rest of a call once stop_collector is past its await
finish_call(x, op, m, circuit_id, has_task) ==
    LET r == stop_collector_end(m, circuit_id, has_task)
    IN  IF r.raised
        THEN /\ SetMgr(r.m)
             /\ calls' = [calls EXCEPT ![x] = [op |-> op, pc |-> "raised", task |-> 0]]
        ELSE /\ SetMgr(IF op = "start" THEN create_collector(r.m, circuit_id) ELSE r.m)
             /\ calls' = [calls EXCEPT ![x] = [op |-> op, pc |-> "returned", task |-> 0]]

\* a call of start_collector / stop_collector up to its first suspension
manager_call(x, op, circuit_id) ==
    /\ calls[x].pc = "idle"
    /\ ncreated < MaxCollectors
    /\ IF circuit_id \notin DOMAIN collectors
       THEN /\ SetMgr(IF op = "start" THEN create_collector(Mgr, circuit_id) ELSE Mgr)
            /\ calls' = [calls EXCEPT ![x] = [op |-> op, pc |-> "returned", task |-> 0]]
            /\ UNCHANGED waiters
       ELSE LET b == stop_collector_begin(Mgr, circuit_id)
            IN  IF b.await = 0
                THEN finish_call(x, op, b.m, circuit_id, b.has_task) /\ UNCHANGED waiters
                ELSE /\ SetMgr(b.m)
                     /\ calls' = [calls EXCEPT ![x] = [op |-> op, pc |-> "awaiting",
                                                        task |-> b.await]]
                     /\ waiters' = [waiters EXCEPT ![b.await] = Append(@, x)]
    /\ IF circuit_id \in DOMAIN collectors /\ collectors[circuit_id] = First
       THEN is_running' = FALSE /\ is_connected' = FALSE
       ELSE UNCHANGED <<is_running, is_connected>>
    /\ UNCHANGED <<reconnect_attempts, cpc, delay, elapsed, status_sent, heartbeat_task,
                   fanout_vars, data_vars>>

StartCollector(x) == manager_call(x, "start", CircuitA)

StopCollector(x) == manager_call(x, "stop", CircuitA)

\* the awaited task is done: the caller resumes after "await task"
ResumeCall(x) ==
    /\ calls[x].pc = "awaiting"
    /\ task_state[calls[x].task] = "done"
    /\ Head(waiters[calls[x].task]) = x
    /\ calls[x].op = "start" => ncreated < MaxCollectors
    /\ finish_call(x, calls[x].op, Mgr, CircuitA, TRUE)
    /\ waiters' = [waiters EXCEPT ![calls[x].task] = Tail(@)]
    /\ UNCHANGED <<fanout_vars, collector_vars, data_vars>>

\* the collectors created after the first
Later == CollectorIds \ {First}

\* the task of a later collector first runs collector.start(): is_running = True
TaskStarts(k) ==
    /\ task_state[k] = "pending"
    /\ task_state' = [task_state EXCEPT ![k] = "running"]
    /\ running_of' = [running_of EXCEPT ![k] = TRUE]
    /\ UNCHANGED <<collectors, tasks, calls, waiters, ncreated, fanout_vars, collector_vars, data_vars>>

\* collector.start() returns on an exhausted budget (break; is_running is left as it is)
TaskEnds(k) ==
    /\ task_state[k] = "running"
    /\ task_state' = [task_state EXCEPT ![k] = "done"]
    /\ UNCHANGED <<collectors, tasks, running_of, calls, waiters, ncreated,
                   fanout_vars, collector_vars, data_vars>>

\* CancelledError ends the task
TaskCancelled(k) ==
    /\ task_state[k] = "cancelling"
    /\ task_state' = [task_state EXCEPT ![k] = "done"]
    /\ UNCHANGED <<collectors, tasks, running_of, calls, waiters, ncreated,
                   fanout_vars, collector_vars, data_vars>>

\* CollectorManager.__init__
InitManager ==
    /\ collectors = << >>
    /\ tasks = << >>
    /\ task_state = [k \in CollectorIds |-> "unborn"]
    /\ running_of = [k \in CollectorIds |-> FALSE]
    /\ calls = [x \in Callers |-> [op |-> "none", pc |-> "idle", task |-> 0]]
    /\ waiters = [k \in CollectorIds |-> << >>]
    /\ ncreated = 0

\* the calls of the manager, the task of the first collector step by step and the
\* tasks of the later ones
NextManager ==
    \/ \E x \in Callers : StartCollector(x)
    \/ \E x \in Callers : StopCollector(x)
    \/ \E x \in Callers : ResumeCall(x)
    \/ NextTask
    \/ \E k \in Later : TaskStarts(k)
    \/ \E k \in Later : TaskEnds(k)
    \/ \E k \in Later : TaskCancelled(k)

\* one collector: a start_collector call creates it, a stop_collector call stops it
NextCollector ==
    \/ StartCollector("r1")
    \/ StopCollector("r2")
    \/ ResumeCall("r2")
    \/ NextTask

\* one collector and the frames of its upstream
NextFrames == NextCollector \/ NextReceive

----------------------------------------------------------------------------
(* The program: subscribers come through websocket_endpoint, one connect per websocket *)

\* ConnectionManager.__init__, no websocket yet
InitFanout ==
    /\ circuit_connections = << >>
    /\ connection_circuits = << >>
    /\ last_data_cache = << >>
    /\ ep = [w \in Handles |-> [pc |-> "new", circuit |-> <<>>]]
    /\ ops = [o \in OpIds |-> IdleOp]
    /\ nops = 0
    /\ sent = [w \in Handles |-> <<>>]
    /\ _lock = Unlocked

----------------------------------------------------------------------------
(* KartingMessageParser (analyzers/karting_parser.py).  A frame is given by what  *)
(* the text tests and the HTML parser find in it: whether it contains "init",     *)
(* whether it has a line starting with "grid||", the cells of the header row r0,  *)
(* the cells of the driver rows, and its "ident|code|value" lines.  A dict is a   *)
(* function; the frames below fill the columns of a driver in ascending order, so *)
(* iterating over a dict of columns visits them in ascending order.               *)

\* the columns c1..c14 of a circuit document: range(1, 15)
NumColumns == 14

ColumnIx == 1..NumColumns

\* f"c{i}"
LowerKeys == <<"c1", "c2", "c3", "c4", "c5", "c6", "c7", "c8", "c9", "c10", "c11", "c12", "c13", "c14">>

\* f"C{i}"
UpperKeys == <<"C1", "C2", "C3", "C4", "C5", "C6", "C7", "C8", "C9", "C10", "C11", "C12", "C13", "C14">>

\* f"{column_key}_raw"
RawKeys == <<"C1_raw", "C2_raw", "C3_raw", "C4_raw", "C5_raw", "C6_raw", "C7_raw", "C8_raw", "C9_raw",
             "C10_raw", "C11_raw", "C12_raw", "C13_raw", "C14_raw">>

\* str(column_index)
ColumnNumbers == <<"1", "2", "3", "4", "5", "6", "7", "8", "9", "10", "11", "12", "13", "14">>

\* column_id.upper()
upper(column_id) == UpperKeys[CHOOSE i \in ColumnIx : LowerKeys[i] = column_id]

\* column_key.lower()
lower(column_key) == LowerKeys[CHOOSE i \in ColumnIx : UpperKeys[i] = column_key]

\* the index n of a column key Cn
index_of(column_key) == CHOOSE i \in ColumnIx : UpperKeys[i] = column_key

\* key.endswith('_raw')
endswith_raw(key) == \E i \in ColumnIx : RawKeys[i] = key

\* dict.get(k, default)
Get(d, k, default) == IF k \in DOMAIN d THEN d[k] ELSE default

\* the largest element of a non-empty set of numbers
Max(S) == CHOOSE x \in S : \A y \in S : y <= x

\* COLUMN_TRANSLATIONS, the entries for the header texts used below; the empty text
\* has an entry too
COLUMN_TRANSLATIONS ==
    [Clt |-> "Classement", Pos |-> "Classement", Driver |-> "Pilote", Kart |-> "Kart",
     Last |-> "Dernier T.", Best |-> "Meilleur T."] @@ ("" :> "Statut")

\* header rows: the td cells of tr r0 whose data-id starts with "c"
Header3 == <<[id |-> "c1", text |-> "Pos"], [id |-> "c2", text |-> "Kart"], [id |-> "c3", text |-> "Driver"]>>

\* two columns translate to the same field; "Pts" is not in the dictionary
Header5 == <<[id |-> "c1", text |-> "Clt"], [id |-> "c2", text |-> "Last"], [id |-> "c3", text |-> "Driver"],
             [id |-> "c4", text |-> "Pos"], [id |-> "c5", text |-> "Pts"]>>

Header2 == <<[id |-> "c1", text |-> "Pos"], [id |-> "c2", text |-> "Kart"]>>

\* two cells with a text and one whose text is empty
Header2Blank == <<[id |-> "c1", text |-> "Pos"], [id |-> "c2", text |-> "Kart"], [id |-> "c3", text |-> ""]>>

\* a grid without a row data-id="r0": soup.find returns None
HeaderNone == << >>

\* the text of a header cell that cannot be read: get_text raises
Raises == "raises"

\* three cells that are read and a fourth whose reading raises
HeaderBroken == <<[id |-> "c1", text |-> "Pos"], [id |-> "c2", text |-> "Kart"], [id |-> "c3", text |-> "Driver"],
                  [id |-> "c4", text |-> Raises]>>

Headers == {Header3, Header5, Header2, Header2Blank, HeaderNone, HeaderBroken}

\* the loop over the header cells raises before it ends
header_raises(header) == \E i \in DOMAIN header : header[i].text = Raises

\* driver rows: tr elements r1, r2 with the text of their td cells
RowsBoth == <<[driver |-> "1", cells |-> <<"1", "7", "Ann">>], [driver |-> "2", cells |-> <<"2", "9", "Bob">>]>>

\* one driver, an empty second cell, a fourth cell
RowsOne == <<[driver |-> "1", cells |-> <<"3", "", "Ann", "58.3">>]>>

RowsNone == << >>

\* two rows r1 of the same driver, the second with its third cell only
RowsDup == <<[driver |-> "1", cells |-> <<"1", "7", "Ann">>], [driver |-> "1", cells |-> <<"", "", "Bob">>]>>

RowSets == {RowsBoth, RowsOne, RowsNone, RowsDup}

\* the initial message of an upstream: "init" lines and one "grid||<tbody>..." line
Snapshot(header, rows) ==
    [init |-> TRUE, grid |-> TRUE, header |-> header, rows |-> rows, lines |-> << >>]

\* the characters of the strings the update lines are written with
characters ==
    [s \in {"1", "2", "3", "4", "5", "6", "7", "8", "9", "10", "11", "12", "13", "14",
             "in", "dr", "rk", "Al", "Trinity"} |->
        CASE s \in {"10", "11", "12", "13", "14"} ->
                <<"1", <<"0", "1", "2", "3", "4">>[(CHOOSE i \in 10..14 : ColumnNumbers[i] = s) - 9]>>
          [] s = "in" -> <<"i", "n">>
          [] s = "dr" -> <<"d", "r">>
          [] s = "rk" -> <<"r", "k">>
          [] s = "Al" -> <<"A", "l">>
          [] s = "Trinity" -> <<"T", "r", "i", "n", "i", "t", "y">>
          [] OTHER -> <<s>>]

\* the line f"r{driver}c{col}|{code}|{value}"
line_text(line) ==
    <<"r">> \o characters[line.driver] \o <<"c">> \o characters[ColumnNumbers[line.col]]
        \o <<"|">> \o characters[line.code] \o <<"|">> \o characters[line.value]

\* the text of an update message: its lines joined by "\n"
RECURSIVE delta_text(_)
delta_text(lines) ==
    IF lines = << >> THEN << >>
    ELSE IF Len(lines) = 1 THEN line_text(lines[1])
    ELSE line_text(lines[1]) \o <<"\n">> \o delta_text(Tail(lines))

\* an update message: lines "r{driver}c{col}|code|value"; "init" is the test
\* 'init' in message of parse_message and broadcast_karting_data
Delta(lines) ==
    [init |-> Contains(delta_text(lines), <<"i", "n", "i", "t">>), grid |-> FALSE,
     header |-> << >>, rows |-> << >>, lines |-> lines]

\* r1c2|in|8 and r1c3|dr|Al: two columns of driver 1
DeltaTwoColumns == Delta(<<[driver |-> "1", col |-> 2, code |-> "in", value |-> "8"],
                           [driver |-> "1", col |-> 3, code |-> "dr", value |-> "Al"]>>)

\* r2c1|rk|1: one column of driver 2
DeltaOneColumn == Delta(<<[driver |-> "2", col |-> 1, code |-> "rk", value |-> "1"]>>)

\* r1c3|dr|Trinity: the name of the driver has the letters "init" in it
DeltaTrinity == Delta(<<[driver |-> "1", col |-> 3, code |-> "dr", value |-> "Trinity"]>>)

Frames ==
    {Snapshot(header, rows) : header \in Headers, rows \in RowSets}
        \cup {DeltaTwoColumns, DeltaOneColumn, DeltaTrinity}

\* dict.update: the entries of e are put into d
Update(d, e) == [k \in DOMAIN d \cup DOMAIN e |-> IF k \in DOMAIN e THEN e[k] ELSE d[k]]

\* KartingMessageParser.__init__.  A Python dict keeps its keys in the order in which
\* they were first set: column_order[driver] is that order for raw_data[driver].
KartingMessageParser(circuit_mappings) ==
    [circuit_mappings |-> circuit_mappings, driver_states |-> << >>, raw_data |-> << >>,
     column_order |-> << >>, message_count |-> 0]

\* detected_mappings of _extract_column_mappings_from_header: one entry per header cell,
\* the translation of its text, or the text itself when the dictionary does not have it
detected_mappings(header) ==
    [column_key \in {upper(header[i].id) : i \in DOMAIN header} |->
        LET i == Max({j \in DOMAIN header : upper(header[j].id) = column_key})
        IN  Get(COLUMN_TRANSLATIONS, header[i].text, header[i].text)]

\* variant of _extract_column_mappings_from_header: the columns detected, by a loop that
\* goes on after a cell it cannot read, replace the mapping whatever their number
_extract_column_mappings_always(circuit_mappings, header) == detected_mappings(header)

\* _extract_column_mappings_from_header: the parser's circuit_mappings afterwards.  The
\* assignment stands after the loop over the cells: when the loop raises, the except
\* branch is taken with the mapping as it was.
_extract_column_mappings_from_header(circuit_mappings, header) ==
    IF header_raises(header)
    THEN circuit_mappings
    ELSE IF Cardinality(DOMAIN detected_mappings(header)) >= 3
    THEN detected_mappings(header)
    ELSE circuit_mappings

\* the value _extract_column_mappings_from_header returns: auto_detection_success
auto_detection_success(header) ==
    ~header_raises(header) /\ Cardinality(DOMAIN detected_mappings(header)) >= 3

\* the non-empty cells of one driver row, keyed by the position of the cell
row_columns(cells) ==
    [column_key \in {UpperKeys[i] : i \in {j \in DOMAIN cells : cells[j] # ""}} |->
        [code |-> "HTML", value |-> cells[index_of(column_key)],
         column_number |-> ColumnNumbers[index_of(column_key)]]]

\* the columns the lines of a message give for one driver, the last line of a column wins
line_columns(lines, driver_id) ==
    [column_key \in {UpperKeys[lines[i].col] : i \in {j \in DOMAIN lines : lines[j].driver = driver_id}} |->
        LET i == Max({j \in DOMAIN lines :
                         lines[j].driver = driver_id /\ UpperKeys[lines[j].col] = column_key})
        IN  [code |-> lines[i].code, value |-> lines[i].value,
             column_number |-> ColumnNumbers[lines[i].col]]]

\* the elements of a set of numbers, smallest first
RECURSIVE ascending(_)
ascending(S) ==
    IF S = {} THEN << >>
    ELSE LET least == CHOOSE x \in S : \A y \in S : x <= y
         IN  <<least>> \o ascending(S \ {least})

\* the keys of row_columns(cells) in the order in which the loop over the cells sets them
row_order(cells) ==
    LET at == ascending({j \in DOMAIN cells : cells[j] # ""})
    IN  [i \in DOMAIN at |-> UpperKeys[at[i]]]

\* the keys of line_columns(lines, driver_id) in the order in which the loop over the
\* lines sets them: a column stands where its first line stands
line_order(lines, driver_id) ==
    LET at == ascending({j \in DOMAIN lines :
                            /\ lines[j].driver = driver_id
                            /\ \A i \in 1..(j - 1) :
                                  ~(lines[i].driver = driver_id /\ lines[i].col = lines[j].col)})
    IN  [i \in DOMAIN at |-> UpperKeys[lines[at[i]].col]]

\* the order of the raw_columns of every entry of "updates"
update_order(frame) ==
    IF frame.init
    THEN IF ~frame.grid
         THEN << >>
         ELSE [driver_id \in {frame.rows[i].driver : i \in DOMAIN frame.rows} |->
                  row_order(frame.rows[Max({j \in DOMAIN frame.rows :
                                               frame.rows[j].driver = driver_id})].cells)]
    ELSE [driver_id \in {frame.lines[i].driver : i \in DOMAIN frame.lines} |->
             line_order(frame.lines, driver_id)]

\* one entry of "updates"
update_entry(driver_id, raw_columns) ==
    [driver_id |-> driver_id, raw_columns |-> raw_columns, timestamp |-> Now]

\* the "updates" dict _parse_html_grid returns: one entry per driver row
html_updates(frame) ==
    IF ~frame.grid
    THEN << >>
    ELSE [driver_id \in {frame.rows[i].driver : i \in DOMAIN frame.rows} |->
             LET i == Max({j \in DOMAIN frame.rows : frame.rows[j].driver = driver_id})
             IN  update_entry(driver_id, row_columns(frame.rows[i].cells))]

\* what the loop over the driver rows stores in self.raw_data for one driver: every
\* non-empty cell of every row of the driver, a later row over an earlier one
rows_columns(rows, driver_id) ==
    LET mine == {j \in DOMAIN rows : rows[j].driver = driver_id}
    IN  [column_key \in UNION {DOMAIN row_columns(rows[j].cells) : j \in mine} |->
            row_columns(rows[Max({j \in mine :
                                    column_key \in DOMAIN row_columns(rows[j].cells)})].cells)[column_key]]

\* the keys of rows_columns(rows, driver_id) in the order in which the loops over the
\* rows and their cells set them
RECURSIVE rows_order(_, _)
rows_order(rows, driver_id) ==
    IF rows = << >> THEN << >>
    ELSE LET before == rows_order(SubSeq(rows, 1, Len(rows) - 1), driver_id)
             row == rows[Len(rows)]
             new == IF row.driver = driver_id THEN row_order(row.cells) ELSE << >>
         IN  before \o SelectSeq(new, LAMBDA k : \A i \in DOMAIN before : before[i] # k)

\* the columns _parse_html_grid stores in self.raw_data, by driver
html_stores(frame) ==
    IF ~frame.grid
    THEN << >>
    ELSE [driver_id \in {frame.rows[i].driver : i \in DOMAIN frame.rows} |->
             update_entry(driver_id, rows_columns(frame.rows, driver_id))]

\* the order in which _parse_html_grid stores the columns of html_stores(frame)
stores_order(frame) ==
    IF ~frame.grid
    THEN << >>
    ELSE [driver_id \in {frame.rows[i].driver : i \in DOMAIN frame.rows} |->
             rows_order(frame.rows, driver_id)]

\* the "updates" dict _parse_pipe_format returns
pipe_updates(frame) ==
    [driver_id \in {frame.lines[i].driver : i \in DOMAIN frame.lines} |->
        update_entry(driver_id, line_columns(frame.lines, driver_id))]

\* self.raw_data after the columns of "updates" are stored in it as (code, value)
store_raw(raw_data, updates) ==
    [driver_id \in DOMAIN raw_data \cup {d \in DOMAIN updates : DOMAIN updates[d].raw_columns # {}} |->
        LET old == Get(raw_data, driver_id, << >>)
            new == IF driver_id \in DOMAIN updates
                   THEN [k \in DOMAIN updates[driver_id].raw_columns |->
                            <<updates[driver_id].raw_columns[k].code,
                              updates[driver_id].raw_columns[k].value>>]
                   ELSE << >>
        IN  Update(old, new)]

\* the key order of self.raw_data[driver] after the columns of "updates" are stored: a
\* column that is new for the driver goes to the end
store_order(column_order, updates, orders) ==
    [driver_id \in DOMAIN column_order \cup {d \in DOMAIN updates : DOMAIN updates[d].raw_columns # {}} |->
        LET old == Get(column_order, driver_id, << >>)
            new == IF driver_id \in DOMAIN updates THEN orders[driver_id] ELSE << >>
        IN  old \o SelectSeq(new, LAMBDA k : \A i \in DOMAIN old : old[i] # k)]

\* _parse_html_grid: the parser afterwards (BeautifulSoup is importable and parses the
\* grid line)
_parse_html_grid(parser, frame) ==
    IF ~frame.grid
    THEN parser
    ELSE [parser EXCEPT
            !.circuit_mappings =
                IF frame.header # << >>
                THEN _extract_column_mappings_from_header(parser.circuit_mappings, frame.header)
                ELSE parser.circuit_mappings,
            !.raw_data = store_raw(parser.raw_data, html_stores(frame)),
            !.column_order = store_order(parser.column_order, html_stores(frame),
                                         stores_order(frame))]

\* _parse_pipe_format: the parser afterwards
_parse_pipe_format(parser, frame) ==
    [parser EXCEPT !.raw_data = store_raw(parser.raw_data, pipe_updates(frame)),
                   !.column_order = store_order(parser.column_order, pipe_updates(frame),
                                                update_order(frame))]

\* self.circuit_mappings.get(column_key, column_key)
field_name(circuit_mappings, column_key) == Get(circuit_mappings, column_key, column_key)

\* the loop over the columns of one driver in _apply_circuit_mappings and in
\* _remap_all_drivers: the field of every column and its Cn_raw entry are put into base,
\* column after column in the key order of the dict; of two columns with one field name
\* the later one stays
mapped_driver(circuit_mappings, base, raw_columns, order) ==
    LET keys == DOMAIN raw_columns
        fields == {field_name(circuit_mappings, k) : k \in keys}
        raws == {RawKeys[index_of(k)] : k \in keys}
    IN  [key \in DOMAIN base \cup fields \cup raws |->
            IF key \in raws
            THEN raw_columns[CHOOSE k \in keys : RawKeys[index_of(k)] = key]
            ELSE IF key \in fields
            THEN raw_columns[order[Max({i \in DOMAIN order :
                                field_name(circuit_mappings, order[i]) = key})]].value
            ELSE base[key]]

\* KartingMessageParser._apply_circuit_mappings
_apply_circuit_mappings(circuit_mappings, raw_updates, orders) ==
    [driver_id \in DOMAIN raw_updates |->
        mapped_driver(circuit_mappings,
                      [driver_id |-> driver_id, timestamp |-> raw_updates[driver_id].timestamp],
                      raw_updates[driver_id].raw_columns, orders[driver_id])]

\* KartingMessageParser.parse_message: the parser afterwards and the result dict
parse_message(parser, frame) ==
    LET counted == [parser EXCEPT !.message_count = parser.message_count + 1]
        parsed == IF frame.init THEN _parse_html_grid(counted, frame)
                  ELSE _parse_pipe_format(counted, frame)
        raw_updates == IF frame.init THEN html_updates(frame) ELSE pipe_updates(frame)
    IN  [parser |-> parsed,
         result |->
            IF raw_updates # << >>
            THEN [success |-> TRUE, drivers_updated |-> DOMAIN raw_updates,
                  mapped_data |-> _apply_circuit_mappings(parsed.circuit_mappings, raw_updates,
                                                          update_order(frame)),
                  message_count |-> counted.message_count, timestamp |-> Now]
            ELSE [success |-> FALSE, drivers_updated |-> {}, mapped_data |-> << >>,
                  message_count |-> counted.message_count, timestamp |-> Now]]

\* KartingMessageParser._remap_all_drivers
_remap_all_drivers(parser) ==
    [parser EXCEPT !.driver_states =
        [driver_id \in DOMAIN parser.raw_data |->
            mapped_driver(parser.circuit_mappings, [driver_id |-> driver_id],
                          [k \in DOMAIN parser.raw_data[driver_id] |->
                              [code |-> parser.raw_data[driver_id][k][1],
                               value |-> parser.raw_data[driver_id][k][2]]],
                          parser.column_order[driver_id])]]

\* KartingMessageParser.update_circuit_mappings
update_circuit_mappings(parser, mappings) ==
    LET updated == [parser EXCEPT !.circuit_mappings = mappings]
    IN  IF updated.driver_states # << >> THEN _remap_all_drivers(updated) ELSE updated

\* KartingMessageParser.get_all_driver_states
get_all_driver_states(parser) == parser.driver_states

\* KartingMessageParser.clear_all_data
clear_all_data(parser) ==
    [parser EXCEPT !.driver_states = << >>, !.raw_data = << >>, !.column_order = << >>,
                   !.message_count = 0]

----------------------------------------------------------------------------
(* The circuit document of the metadata store (services/firebase_sync.py) and      *)
(* ConnectionManager.broadcast_karting_data, for one circuit whose document exists *)

\* Calls of broadcast_karting_data, and messages given to the session, in a behaviour.
MaxMessages == 3

\* FirebaseSyncService.get_circuit_mappings
get_circuit_mappings(circuit_data) ==
    [column_key \in {UpperKeys[i] : i \in {j \in ColumnIx : LowerKeys[j] \in DOMAIN circuit_data}} |->
        circuit_data[lower(column_key)]]

\* FirebaseSyncService.save_null_mappings_to_circuit: update_data
null_update_data ==
    Update([i \in {LowerKeys[j] : j \in ColumnIx} |-> None],
           [autoDetectionFailed |-> TRUE, autoDetectionFailedAt |-> Now,
            configurationRequired |-> TRUE, updatedAt |-> Now])

\* FirebaseSyncService.update_circuit_mappings: update_data
mapping_update_data(mappings) ==
    Update(mappings,
           [autoDetectionSucceeded |-> TRUE, autoDetectionSucceededAt |-> Now,
            configurationRequired |-> FALSE, updatedAt |-> Now])

\* firebase_mappings of _save_detected_mappings_to_firebase: the keys in lower case
firebase_mappings(circuit_mappings) ==
    [firebase_key \in {lower(k) : k \in DOMAIN circuit_mappings} |-> circuit_mappings[upper(firebase_key)]]

\* KartingMessageParser._save_detected_mappings_to_firebase: the update the document
\* receives, if any
_save_detected_mappings_to_firebase(circuit_mappings) ==
    IF circuit_mappings = << >>
    THEN << >>
    ELSE << [request |-> "update_circuit_mappings",
             update_data |-> mapping_update_data(firebase_mappings(circuit_mappings))] >>

\* KartingMessageParser._save_null_mappings_to_firebase: the update the document receives,
\* if any.  The method is synchronous and runs the save with run_until_complete on a new
\* event loop, which raises RuntimeError in a thread that is already running a loop; the
\* error is caught and logged.
_save_null_mappings_to_firebase(loop_running) ==
    IF loop_running
    THEN << >>
    ELSE << [request |-> "save_null_mappings_to_circuit", update_data |-> null_update_data] >>

\* doc_ref.update for each request in turn
apply_requests(circuit_data, reqs) ==
    IF reqs = << >> THEN circuit_data ELSE Update(circuit_data, reqs[1].update_data)

\* a record of mapped_data has the key None: the field name of a column whose stored
\* mapping is null.  key.endswith('_raw') then raises AttributeError.
has_none_key(mapped_data) ==
    \E driver_id \in DOMAIN mapped_data : None \in DOMAIN mapped_data[driver_id]

\* str(e) of that AttributeError, in the text broadcast_karting_data gives to send_error
ProcessingError == "Error processing timing data: 'NoneType' object has no attribute 'endswith'"

\* simple_drivers of broadcast_karting_data: no dict when the loop raises
simple_drivers(mapped_data) ==
    IF has_none_key(mapped_data)
    THEN << >>
    ELSE [driver_id \in DOMAIN mapped_data |->
             [key \in {k \in DOMAIN mapped_data[driver_id] :
                          ~endswith_raw(k) /\ k \notin {"driver_id", "timestamp"}} |->
                 mapped_data[driver_id][key]]]

\* the message broadcast_karting_data builds from a result with success: the
\* karting_data message it passes to _broadcast_message_to_circuit, or, when the loop
\* over mapped_data raises, the error message send_error builds
karting_message(circuit_id, result) ==
    IF has_none_key(result.mapped_data)
    THEN error_message(circuit_id, ProcessingError)
    ELSE [type |-> "karting_data", circuit_id |-> circuit_id,
          drivers |-> simple_drivers(result.mapped_data),
          message_count |-> result.message_count, timestamp |-> result.timestamp]

\* no message yet
NoMessage == [type |-> "none"]

\* no parse_message call yet
NoResult == [success |-> FALSE, drivers_updated |-> {}, mapped_data |-> << >>,
             message_count |-> 0, timestamp |-> None]

\* the circuit document as it is created, before any mapping is known
NewDocument == [nom |-> "circuit a"]

\* the circuit document with its fourteen columns null, as the configuration page and
\* save_null_mappings_to_circuit write it
NullDocument == Update(NewDocument, [i \in {LowerKeys[j] : j \in ColumnIx} |-> None])

\* the circuit document with two columns named and the others null
PartialDocument == Update(NullDocument, [c1 |-> "Classement", c2 |-> "Pilote"])

StoredDocuments == {NewDocument, NullDocument, PartialDocument}

\* the circuit document is circuit_data, no frame processed
InitKartingData(circuit_data) ==
    /\ store = circuit_data
    /\ payload = NoMessage
    /\ last_result = NoResult
    /\ mappings_read = << >>
    /\ active = << >>
    /\ requests = << >>
    /\ last_frame = Delta(<< >>)
    /\ seen = << >>
    /\ nmessages = 0

\* "mappings" of broadcast_karting_data, lines 128-134: the 'mappings' entry of
\* get_circuit_with_mappings(circuit_id), {} when that gives None.  found and loaded are
\* the answers of the store to the two reads the call makes of the document: get_circuit
\* of get_circuit_with_mappings, then get_circuit of get_circuit_mappings.  A read that
\* raises is caught in get_circuit, which returns None: without the first the circuit
\* is None, without the second get_circuit_mappings returns {}.
stored_mappings(circuit_data, found, loaded) ==
    IF ~found THEN << >>
    ELSE IF ~loaded THEN << >>
    ELSE get_circuit_mappings(circuit_data)

\* broadcast_karting_data(circuit_id, raw_message) on the circuit document circuit_data,
\* the store answering its reads as found and loaded say: the mappings read, the parser
\* after parse_message, its result, and the updates sent to the document
karting_call(circuit_data, found, loaded, frame) ==
    LET mappings == stored_mappings(circuit_data, found, loaded)
        parsed == parse_message(KartingMessageParser(mappings), frame)
        parser == parsed.parser
        result == parsed.result
        reqs == IF ~result.success
                THEN IF frame.grid THEN _save_null_mappings_to_firebase(TRUE) ELSE << >>
                ELSE IF (frame.grid \/ frame.init)
                        /\ parser.circuit_mappings # << >>
                        /\ Cardinality(DOMAIN parser.circuit_mappings) >= 3
                     THEN _save_detected_mappings_to_firebase(parser.circuit_mappings)
                     ELSE << >>
    IN  [mappings |-> mappings, parser |-> parser, result |-> result, reqs |-> reqs]

\* broadcast_karting_data(circuit_id, raw_message) up to its call of
\* _broadcast_message_to_circuit, which is the action Broadcast: the stored mappings
\* are read (found, loaded: the store answers the read, or the read raises and the
\* parser is built without mappings), a new parser parses the frame, the mappings are
\* saved, the message is built.
\* It is a coroutine: the thread is running an event loop.  written is the answer of the
\* store to the update it is sent, if any: doc_ref.update returns, or it raises and
\* update_circuit_mappings returns False, which is logged; the document is then left as
\* it is and the message is built all the same.  When a record of mapped_data has the
\* key None the loop that builds simple_drivers raises: no karting_data message is built
\* and the except branch gives an error message to send_error.
BroadcastKartingData(frame, found, loaded, written) ==
    /\ nmessages < MaxMessages
    /\ nmessages' = nmessages + 1
    /\ \E call \in {karting_call(store, found, loaded, frame)} :
           /\ call.reqs = << >> => written
           /\ last_frame' = frame
           /\ mappings_read' = call.mappings
           /\ active' = call.parser.circuit_mappings
           /\ seen' = store_raw(seen, IF frame.init THEN html_stores(frame) ELSE pipe_updates(frame))
           /\ requests' = IF written THEN call.reqs ELSE << >>
           /\ store' = IF written THEN apply_requests(store, call.reqs) ELSE store
           /\ payload' = IF call.result.success THEN karting_message(CircuitA, call.result) ELSE payload
           /\ last_result' = call.result
    /\ UNCHANGED <<fanout_vars, collector_vars, manager_vars, channel_vars, twin_vars, text_vars, write_vars, frame_vars, session_vars, persist_vars>>

\* the answers of the store to the two reads of a call: both answer, the second raises,
\* or the first raises, after which there is no second read
ReadAnswers == { <<TRUE, TRUE>>, <<TRUE, FALSE>>, <<FALSE, FALSE>> }

NextKartingData ==
    \E frame \in Frames, reads \in ReadAnswers, written \in BOOLEAN :
        BroadcastKartingData(frame, reads[1], reads[2], written)

----------------------------------------------------------------------------
(* DriverStateManager (services/driver_state_manager.py): one parser kept for the  *)
(* circuit, the records merged from its results and from the static data given to  *)
(* update_static_data (_load_static_data itself sets static_data to {}).           *)

\* mappings given to KartingMessageParser.update_circuit_mappings
MappingChoices ==
    { [C1 |-> "Kart", C2 |-> "Pilote", C3 |-> "Tours"],
      [C1 |-> "Classement", C2 |-> "Kart", C3 |-> "Pilote", C4 |-> "Dernier T."] }

\* data given to DriverStateManager.update_static_data, and the drivers it is given for
StaticDrivers == {"1", "2"}
StaticChoices == { [Equipe |-> "Red"], [Equipe |-> "Blue"] }

\* the websocket_data argument of _merge_single_driver: NoData is None, Data(d) the dict d
NoData == << >>
Data(d) == <<d>>

\* DriverStateManager._merge_single_driver: the record of the driver, or a new one, takes
\* the static data of the driver, then the websocket fields that are no _raw keys, then
\* the three marks
_merge_single_driver(merged, static, driver_id, websocket_data) ==
    LET merged_driver == Get(merged, driver_id, [driver_id |-> driver_id])
        with_static == IF driver_id \in DOMAIN static
                       THEN Update(merged_driver, static[driver_id])
                       ELSE merged_driver
        fields == IF websocket_data # NoData /\ websocket_data[1] # << >>
                  THEN [key \in {k \in DOMAIN websocket_data[1] : ~endswith_raw(k)} |->
                           websocket_data[1][key]]
                  ELSE << >>
        meta == [last_update |-> Now,
                 has_websocket_data |-> websocket_data # NoData,
                 has_static_data |-> driver_id \in DOMAIN static]
    IN  DictSet(merged, driver_id, Update(Update(with_static, fields), meta))

\* DriverStateManager._merge_websocket_updates: every updated driver is merged in turn
RECURSIVE merge_drivers(_, _, _, _)
merge_drivers(merged, static, driver_ids, mapped_data) ==
    IF driver_ids = {}
    THEN merged
    ELSE LET driver_id == CHOOSE d \in driver_ids : TRUE
             next == IF driver_id \in DOMAIN mapped_data
                     THEN _merge_single_driver(merged, static, driver_id,
                                               Data(mapped_data[driver_id]))
                     ELSE merged
         IN  merge_drivers(next, static, driver_ids \ {driver_id}, mapped_data)

_merge_websocket_updates(merged, static, driver_ids, mapped_data) ==
    merge_drivers(merged, static, driver_ids, mapped_data)

\* no export_session call yet
NoBlob ==
    [exported |-> FALSE, circuit_id |-> None, circuit_mappings |-> << >>, merged_states |-> << >>,
     static_data |-> << >>, has_parser_data |-> FALSE,
     parser_data |-> [driver_states |-> << >>, raw_data |-> << >>, column_order |-> << >>,
                      circuit_mappings |-> << >>, message_count |-> 0],
     merged_alias |-> FALSE, raw_alias |-> FALSE, states_alias |-> FALSE, static_alias |-> FALSE]

\* mapping, raw table and driver records of the session
session_view(parser, merged) ==
    [circuit_mappings |-> parser.circuit_mappings, raw_data |-> parser.raw_data,
     merged_states |-> merged]

\* export_session and export_session_data put the session's own dict objects into the
\* blob.  merged_alias, raw_alias, states_alias, static_alias say that
\* blob["merged_states"], blob["parser_data"]["raw_data"],
\* blob["parser_data"]["driver_states"], blob["static_data"] are still the objects the
\* session works on; what the session changes in place in such an object is changed in
\* the blob.
shared(b, parser, merged, static) ==
    [b EXCEPT !.merged_states = IF b.merged_alias THEN merged ELSE @,
              !.static_data = IF b.static_alias THEN static ELSE @,
              !.parser_data.raw_data = IF b.raw_alias THEN parser.raw_data ELSE @,
              !.parser_data.column_order = IF b.raw_alias THEN parser.column_order ELSE @,
              !.parser_data.driver_states = IF b.states_alias THEN parser.driver_states ELSE @]

\* karting_parser is None: DriverStateManager has no parser, so no mapping, no table and
\* no count of its own
NoParser ==
    [none |-> TRUE, circuit_mappings |-> << >>, driver_states |-> << >>, raw_data |-> << >>,
     column_order |-> << >>, message_count |-> 0]

\* DriverStateManager.__init__: no parser, no circuit, empty dicts
InitSession ==
    /\ karting_parser = NoParser
    /\ merged_states = << >>
    /\ static_data = << >>
    /\ current_circuit_mappings = << >>
    /\ current_circuit_id = None
    /\ blob = NoBlob
    /\ exported = session_view(NoParser, << >>)

\* DriverStateManager.process_websocket_message: the parser and merged_states afterwards;
\* without a parser the call returns an error and changes nothing
process_websocket_message(parser, merged, static, frame) ==
    IF parser = NoParser
    THEN [parser |-> parser, merged |-> merged]
    ELSE LET parsed == parse_message(parser, frame)
         IN  [parser |-> parsed.parser,
              merged |-> IF parsed.result.success
                         THEN _merge_websocket_updates(merged, static,
                                                       parsed.result.drivers_updated,
                                                       parsed.result.mapped_data)
                         ELSE merged]

\* DriverStateManager.process_websocket_message: raw_data and merged_states are updated
\* in place
ProcessWebsocketMessage(frame) ==
    /\ nmessages < MaxMessages
    /\ nmessages' = nmessages + 1
    /\ LET after == process_websocket_message(karting_parser, merged_states, static_data, frame)
       IN  /\ karting_parser' = after.parser
           /\ merged_states' = after.merged
    /\ blob' = shared(blob, karting_parser', merged_states', static_data)
    /\ UNCHANGED <<fanout_vars, collector_vars, manager_vars, channel_vars, twin_vars, text_vars, write_vars, frame_vars,
                   store, payload, last_result, mappings_read, active, requests, last_frame, seen,
                   static_data,
                   current_circuit_mappings, current_circuit_id, exported>>

\* DriverStateManager.update_static_data: the data is added to the static data of the
\* driver and the record of the driver is merged again, without websocket data
UpdateStaticData(driver_id, data) ==
    /\ static_data' = DictSet(static_data, driver_id,
                              Update(Get(static_data, driver_id, << >>), data))
    /\ merged_states' = _merge_single_driver(merged_states, static_data', driver_id, NoData)
    /\ blob' = shared(blob, karting_parser, merged_states', static_data')
    /\ UNCHANGED <<fanout_vars, collector_vars, manager_vars, channel_vars, twin_vars, text_vars, write_vars, frame_vars,
                   karting_vars, karting_parser,
                   current_circuit_mappings, current_circuit_id, exported>>

\* KartingMessageParser.update_circuit_mappings on the session's parser, once there is
\* one; a remap binds driver_states to a new dict
UpdateCircuitMappings(mappings) ==
    /\ karting_parser # NoParser
    /\ karting_parser' = update_circuit_mappings(karting_parser, mappings)
    /\ blob' = IF karting_parser.driver_states # << >>
               THEN [blob EXCEPT !.states_alias = FALSE]
               ELSE blob
    /\ UNCHANGED <<fanout_vars, collector_vars, manager_vars, channel_vars, twin_vars, text_vars, write_vars, frame_vars, karting_vars, merged_states,
                   static_data, current_circuit_mappings, current_circuit_id, exported>>

\* DriverStateManager.clear_session_data: the parser, if there is one, is cleared and
\* the dicts are emptied with clear()
ClearSessionData ==
    /\ karting_parser' = IF karting_parser = NoParser THEN NoParser
                         ELSE clear_all_data(karting_parser)
    /\ merged_states' = << >>
    /\ static_data' = << >>
    /\ blob' = shared(blob, karting_parser', merged_states', static_data')
    /\ UNCHANGED <<fanout_vars, collector_vars, manager_vars, channel_vars, twin_vars, text_vars, write_vars, frame_vars, karting_vars,
                   current_circuit_mappings, current_circuit_id, exported>>

\* a value that counts as true in "if circuit_data[column_key]": neither None nor ""
truthy(value) == value # None /\ value # ""

\* the mappings initialize_circuit takes from the circuit data: the columns with a value
truthy_mappings(circuit_data) ==
    [column_key \in {UpperKeys[i] : i \in {j \in ColumnIx :
                        LowerKeys[j] \in DOMAIN circuit_data /\ truthy(circuit_data[LowerKeys[j]])}} |->
        circuit_data[lower(column_key)]]

\* the circuits the drivers, clear and export requests of main.py name: a and b have a
\* document, x has none
SessionCircuits == {"a", "b", "x"}

\* the stored document of circuit b: one column is set, one empty, one null
CircuitB == [nom |-> "circuit b", c1 |-> "Kart", c2 |-> "Pilote", c3 |-> "", c4 |-> None]

\* a read that gives None
NoCircuit == << >>

\* firebase_sync.get_circuit: the document; None when there is no document and when the
\* read raises (answers is FALSE)
get_circuit(circuit_id, answers) ==
    IF ~answers THEN NoCircuit
    ELSE IF circuit_id = "a" THEN store
    ELSE IF circuit_id = "b" THEN CircuitB
    ELSE NoCircuit

\* firebase_sync.get_circuit_with_mappings: None without circuit data, else the
\* document, which holds its columns c1..c14 already
get_circuit_with_mappings(circuit_id, answers) == get_circuit(circuit_id, answers)

\* firebase_sync.validate_circuit_exists
validate_circuit_exists(circuit_id, answers) == get_circuit(circuit_id, answers) # NoCircuit

\* DriverStateManager.initialize_circuit: current_circuit_id is set first; without
\* circuit data the call returns False there; else a new parser replaces the old one and
\* a new empty dict the static data (_load_static_data), merged_states is left as it is
InitializeCircuit(circuit_id, answers) ==
    /\ current_circuit_id' = circuit_id
    /\ LET circuit_data == get_circuit_with_mappings(circuit_id, answers)
       IN  IF circuit_data = NoCircuit
           THEN UNCHANGED <<current_circuit_mappings, karting_parser, static_data, blob>>
           ELSE /\ current_circuit_mappings' = truthy_mappings(circuit_data)
                /\ karting_parser' = KartingMessageParser(truthy_mappings(circuit_data))
                /\ static_data' = << >>
                /\ blob' = [blob EXCEPT !.raw_alias = FALSE, !.states_alias = FALSE,
                                        !.static_alias = FALSE]
    /\ UNCHANGED <<fanout_vars, collector_vars, manager_vars, channel_vars, twin_vars, text_vars, write_vars, frame_vars, karting_vars,
                   merged_states, exported>>

\* main.get_driver_states: 404 for a circuit that does not exist; else the one
\* DriverStateManager of the process is initialised for the circuit of the request when
\* it is not its current one.  found and loaded are the answers of the store to the two
\* reads.
GetDriverStates(circuit_id, found, loaded) ==
    IF validate_circuit_exists(circuit_id, found) /\ current_circuit_id # circuit_id
    THEN InitializeCircuit(circuit_id, loaded)
    ELSE UNCHANGED vars

\* main.clear_driver_session: 404 for a circuit that does not exist; else
\* clear_session_data on the one DriverStateManager of the process, whatever circuit the
\* request names
ClearDriverSession(circuit_id, found) ==
    IF validate_circuit_exists(circuit_id, found)
    THEN ClearSessionData
    ELSE UNCHANGED vars

\* DriverStateManager.export_session with KartingMessageParser.export_session_data
ExportSession ==
    /\ blob' = [exported |-> TRUE,
                circuit_id |-> current_circuit_id,
                circuit_mappings |-> current_circuit_mappings,
                merged_states |-> merged_states,
                static_data |-> static_data,
                has_parser_data |-> karting_parser # NoParser,
                parser_data |-> IF karting_parser = NoParser
                                THEN NoBlob.parser_data
                                ELSE [driver_states |-> karting_parser.driver_states,
                                      raw_data |-> karting_parser.raw_data,
                                      column_order |-> karting_parser.column_order,
                                      circuit_mappings |-> karting_parser.circuit_mappings,
                                      message_count |-> karting_parser.message_count],
                merged_alias |-> TRUE,
                raw_alias |-> karting_parser # NoParser,
                states_alias |-> karting_parser # NoParser,
                static_alias |-> TRUE]
    /\ exported' = session_view(karting_parser, merged_states)
    /\ UNCHANGED <<fanout_vars, collector_vars, manager_vars, channel_vars, twin_vars, text_vars, write_vars, frame_vars, karting_vars,
                   session_vars, current_circuit_mappings, current_circuit_id>>

\* KartingMessageParser.import_session_data: driver_states is bound to the dict of the
\* blob, raw_data to a new dict built from the one of the blob
import_session_data(parser, data) ==
    [parser EXCEPT !.driver_states = data.driver_states,
                   !.raw_data = data.raw_data,
                   !.column_order = data.column_order,
                   !.circuit_mappings = data.circuit_mappings,
                   !.message_count = data.message_count]

\* DriverStateManager.import_session of the blob of the last export
ImportSession ==
    /\ blob.exported
    /\ current_circuit_mappings' = blob.circuit_mappings
    /\ karting_parser' = IF blob.has_parser_data
                         THEN import_session_data(KartingMessageParser(blob.circuit_mappings),
                                                  blob.parser_data)
                         ELSE KartingMessageParser(blob.circuit_mappings)
    /\ merged_states' = blob.merged_states
    /\ static_data' = blob.static_data
    /\ blob' = [blob EXCEPT !.merged_alias = TRUE, !.raw_alias = FALSE,
                            !.states_alias = blob.has_parser_data, !.static_alias = TRUE]
    /\ current_circuit_id' = blob.circuit_id
    /\ UNCHANGED <<fanout_vars, collector_vars, manager_vars, channel_vars, twin_vars, text_vars, write_vars, frame_vars, karting_vars, exported>>

\* the calls a session is given; update_static_data is called for driver "1", a driver
\* of the frames (the method treats every driver id alike)
NextSession ==
    \/ \E frame \in Frames : ProcessWebsocketMessage(frame)
    \/ \E mappings \in MappingChoices : UpdateCircuitMappings(mappings)
    \/ ClearSessionData
    \/ \E data \in StaticChoices : UpdateStaticData("1", data)
    \/ \E found \in BOOLEAN, loaded \in BOOLEAN : GetDriverStates("a", found, loaded)

\* the frames of the export and import scenarios: two deltas and a snapshot
PersistFrames == {DeltaTwoColumns, DeltaOneColumn, Snapshot(Header3, RowsBoth)}

\* the session as main.py drives it: update_static_data has no caller in the service, the
\* static data stays the empty dict of _load_static_data
NextPersist ==
    \/ \E frame \in PersistFrames : ProcessWebsocketMessage(frame)
    \/ \E mappings \in MappingChoices : UpdateCircuitMappings(mappings)
    \/ ClearSessionData
    \/ \E loaded \in BOOLEAN : InitializeCircuit("a", loaded)
    \/ ExportSession
    \/ ImportSession

\* the drivers and clear requests of two circuits on the one session of the process
NextCircuits ==
    \/ \E frame \in PersistFrames : ProcessWebsocketMessage(frame)
    \/ \E circuit_id \in SessionCircuits, found \in BOOLEAN, loaded \in BOOLEAN :
          GetDriverStates(circuit_id, found, loaded)
    \/ \E circuit_id \in SessionCircuits, found \in BOOLEAN :
          ClearDriverSession(circuit_id, found)
    \/ \E driver_id \in StaticDrivers, data \in StaticChoices : UpdateStaticData(driver_id, data)

----------------------------------------------------------------------------
(* The characters of an update message: what parse_message and _parse_pipe_format *)
(* do with the text.  A text is a sequence of characters, a dict keyed by texts a *)
(* function on such sequences.  The Delta frames above are the records this       *)
(* finds in messages whose columns are 1..14.                                     *)

\* str.split(sep) for a separator of one character
RECURSIVE split(_, _)
split(s, sep) ==
    IF \A i \in DOMAIN s : s[i] # sep
    THEN <<s>>
    ELSE LET i == CHOOSE i \in DOMAIN s : s[i] = sep /\ \A j \in 1..(i - 1) : s[j] # sep
         IN  <<SubSeq(s, 1, i - 1)>> \o split(SubSeq(s, i + 1, Len(s)), sep)

\* str.startswith(prefix)
startswith(s, prefix) == Len(s) >= Len(prefix) /\ SubSeq(s, 1, Len(prefix)) = prefix

\* str.endswith(suffix)
endswith(s, suffix) == Len(s) >= Len(suffix) /\ SubSeq(s, Len(s) - Len(suffix) + 1, Len(s)) = suffix

\* "\n".join(lines)
RECURSIVE join_lines(_)
join_lines(lines) ==
    IF Len(lines) = 1 THEN lines[1] ELSE lines[1] \o <<"\n">> \o join_lines(Tail(lines))

\* no update for a line
NoRecord == [skipped |-> TRUE]

\* one pass of "for line in lines" of _parse_pipe_format: the update the line makes, or
\* NoRecord when the pass ends with "continue".  "pilot_raw, col = ident.split('c')"
\* raises ValueError unless the split gives two parts.
pipe_record(line) ==
    LET stripped == Strip(line)
        parts == split(stripped, "|")
        ident == parts[1]
        halves == split(ident, "c")
    IN  IF stripped = << >> THEN NoRecord
        ELSE IF Len(parts) # 3 THEN NoRecord
        ELSE IF ~startswith(ident, <<"r">>) \/ ~Contains(ident, <<"c">>) THEN NoRecord
        ELSE IF Len(halves) # 2 THEN NoRecord
        ELSE [skipped |-> FALSE, driver_id |-> Tail(halves[1]), col |-> halves[2],
              column_key |-> <<"C">> \o halves[2], code |-> parts[2], value |-> parts[3]]

\* the updates of the lines of message.strip().split('\n'), in the order of the lines
pipe_records(message) ==
    LET lines == split(Strip(message), "\n")
        records == [i \in DOMAIN lines |-> pipe_record(lines[i])]
    IN  SelectSeq(records, LAMBDA rec : ~rec.skipped)

\* self.raw_data after the updates: raw_data[driver_id][column_key] = (code, value)
RECURSIVE text_store_raw(_, _)
text_store_raw(raw_data, records) ==
    IF records = << >>
    THEN raw_data
    ELSE LET rec == Head(records)
             old == Get(raw_data, rec.driver_id, << >>)
         IN  text_store_raw(
                 Update(raw_data,
                        (rec.driver_id :> Update(old, (rec.column_key :> <<rec.code, rec.value>>)))),
                 Tail(records))

\* the keys of updates[driver_id]['raw_columns'] in the order in which they were set
text_order(records, driver_id) ==
    LET own == SelectSeq(records, LAMBDA rec : rec.driver_id = driver_id)
        at == ascending({j \in DOMAIN own : \A i \in 1..(j - 1) : own[i].column_key # own[j].column_key})
    IN  [i \in DOMAIN at |-> own[at[i]].column_key]

\* updates[driver_id]['raw_columns'][column_key]['value']: the last line of the column
text_value(records, driver_id, column_key) ==
    LET own == SelectSeq(records, LAMBDA rec : rec.driver_id = driver_id /\ rec.column_key = column_key)
    IN  own[Len(own)].value

\* the mappings of the parser: C1 and C2 have a field name
TextMappings ==
    (<<"C", "1">> :> <<"P", "o", "s">>) @@ (<<"C", "2">> :> <<"K", "a", "r", "t">>)

\* one driver of simple_drivers of broadcast_karting_data, from the mapped_driver that
\* _apply_circuit_mappings builds: the fields of the columns, without the keys that end
\* with "_raw" and without driver_id and timestamp
text_simple_driver(circuit_mappings, records, driver_id) ==
    LET order == text_order(records, driver_id)
        fields == {field_name(circuit_mappings, order[i]) : i \in DOMAIN order}
        kept == {key \in fields :
                    /\ ~endswith(key, <<"_", "r", "a", "w">>)
                    /\ key \notin {<<"d", "r", "i", "v", "e", "r", "_", "i", "d">>,
                                   <<"t", "i", "m", "e", "s", "t", "a", "m", "p">>}}
    IN  [key \in kept |->
            text_value(records, driver_id,
                       order[Max({i \in DOMAIN order : field_name(circuit_mappings, order[i]) = key})])]

\* "drivers" of the message broadcast_karting_data builds from the result of parse_message
text_simple_drivers(circuit_mappings, records) ==
    [driver_id \in {records[i].driver_id : i \in DOMAIN records} |->
        text_simple_driver(circuit_mappings, records, driver_id)]

\* the lines of the scenario
TextLines ==
    { <<"r", "1", "c", "2", "|", "i", "n", "|", "8">>,   \* r1c2|in|8
      <<"r", "2", "c", "1", "|", "r", "k", "|", "1">>,   \* r2c1|rk|1
      <<"r", "1", "c", "2", "|", "i", "n">>,   \* r1c2|in
      <<"x", "1", "c", "2", "|", "i", "n", "|", "8">>,   \* x1c2|in|8
      <<"r", "1", "2", "|", "i", "n", "|", "8">>,   \* r12|in|8
      <<"r", "a", "c", "1", "c", "2", "|", "i", "n", "|", "8">>,   \* rac1c2|in|8
      <<"r", "5", "c", "0", "|", "x", "|", "v">>,   \* r5c0|x|v
      <<"r", "5", "c", "1", "5", "|", "x", "|", "v">> }   \* r5c15|x|v

\* messages of one line and of two lines
TextMessages ==
    {join_lines(<<line>>) : line \in TextLines}
        \cup {join_lines(<<first, second>>) : first \in TextLines, second \in TextLines}

InitText ==
    /\ text_message = << >>
    /\ text_before = << >>
    /\ text_raw = << >>
    /\ text_drivers = << >>

\* parse_message(message) for a message without "init", on a parser with the mappings
\* TextMappings, and the drivers of the payload broadcast_karting_data builds from it
ParseMessageText(message) ==
    /\ ~Contains(message, <<"i", "n", "i", "t">>)
    /\ LET records == pipe_records(message)
       IN  /\ text_message' = message
           /\ text_before' = text_raw
           /\ text_raw' = text_store_raw(text_raw, records)
           /\ text_drivers' = text_simple_drivers(TextMappings, records)
    /\ UNCHANGED <<fanout_vars, collector_vars, manager_vars, frame_vars, karting_vars,
                   session_vars, persist_vars, channel_vars, twin_vars, write_vars>>

NextText == \E message \in TextMessages : ParseMessageText(message)

----------------------------------------------------------------------------
(* broadcast_karting_data and the metadata store.  The call awaits              *)
(* _save_detected_mappings_to_firebase before it builds its message; the save   *)
(* returns when the store has answered update_circuit_mappings, with success or *)
(* with an error, which is caught and logged.  A store that answers no more     *)
(* leaves the call in that await.                                                *)

\* no call awaits a save; "broadcast" numbers the last frame whose message, karting_data
\* or error, was given to the subscribers of the circuit
NoCall == [waiting |-> FALSE, frame_no |-> 0, result |-> << >>, reqs |-> << >>, broadcast |-> 0]

InitWrite ==
    /\ pending = NoCall
    /\ store_responds = TRUE

\* the metadata store stops answering
StoreStopsResponding ==
    /\ store_responds
    /\ store_responds' = FALSE
    /\ UNCHANGED <<fanout_vars, collector_vars, manager_vars, frame_vars, karting_vars,
                   session_vars, persist_vars, channel_vars, twin_vars, text_vars, pending>>

\* broadcast_karting_data up to the await of the save, or to its end when the frame
\* makes no save; found and loaded are the answers of the store to the reads of the
\* mappings
KartingDataBegins(frame, found, loaded) ==
    /\ ~pending.waiting
    /\ store_responds
    /\ nmessages < MaxMessages
    /\ nmessages' = nmessages + 1
    /\ \E call \in {karting_call(store, found, loaded, frame)} :
       LET saves == call.reqs # << >> /\ call.reqs[1].request = "update_circuit_mappings"
       IN  /\ last_frame' = frame
           /\ mappings_read' = call.mappings
           /\ last_result' = call.result
           /\ active' = call.parser.circuit_mappings
           /\ seen' = store_raw(seen, IF frame.init THEN html_stores(frame) ELSE pipe_updates(frame))
           /\ IF saves
              THEN /\ pending' = [pending EXCEPT !.waiting = TRUE, !.frame_no = nmessages + 1,
                                                 !.result = call.result, !.reqs = call.reqs]
                   /\ UNCHANGED <<requests, store, payload>>
              ELSE /\ requests' = call.reqs
                   /\ store' = apply_requests(store, call.reqs)
                   /\ payload' = IF call.result.success
                                 THEN karting_message(CircuitA, call.result) ELSE payload
                   /\ pending' = [pending EXCEPT !.broadcast =
                                     IF call.result.success THEN nmessages + 1 ELSE @]
    /\ UNCHANGED <<fanout_vars, collector_vars, manager_vars, frame_vars, session_vars,
                   persist_vars, channel_vars, twin_vars, text_vars, store_responds>>

\* the rest of broadcast_karting_data once the save has returned: the message is built
\* and given to _broadcast_message_to_circuit, or the loop that builds it raises and
\* the error message is given to send_error
after_save(written) ==
    /\ pending.waiting
    /\ store_responds
    /\ requests' = IF written THEN pending.reqs ELSE << >>
    /\ store' = IF written THEN apply_requests(store, pending.reqs) ELSE store
    /\ payload' = karting_message(CircuitA, pending.result)
    /\ pending' = [NoCall EXCEPT !.broadcast = pending.frame_no]
    /\ UNCHANGED <<fanout_vars, collector_vars, manager_vars, frame_vars, session_vars,
                   persist_vars, channel_vars, twin_vars, text_vars, store_responds,
                   last_frame, last_result, mappings_read, active, seen, nmessages>>

\* the store answers the update: the document is written
SaveReturns == after_save(TRUE)

\* the store answers with an error: update_circuit_mappings returns False, logged only
SaveFails == after_save(FALSE)

NextWrite ==
    \/ \E frame \in Frames, reads \in ReadAnswers :
          KartingDataBegins(frame, reads[1], reads[2])
    \/ SaveReturns
    \/ SaveFails
    \/ StoreStopsResponding

\* the service after its start, the document of circuit a being circuit_data
InitData(circuit_data) ==
    /\ InitFrames
    /\ InitKartingData(circuit_data)
    /\ InitSession
    /\ stalled = {}
    /\ twin_parser = KartingMessageParser(<< >>)
    /\ twin_merged = << >>
    /\ InitText
    /\ InitWrite

Init == InitFanout /\ InitCollector /\ InitManager /\ InitData(NewDocument)

\* the service after its start, for each of the documents circuit a may have
InitStored ==
    InitFanout /\ InitCollector /\ InitManager /\ \E circuit_data \in StoredDocuments : InitData(circuit_data)

SendOutcomes == {Ok} \cup ErrorTexts

Next ==
    \/ \E w \in Handles, raw \in RawCircuits : ConnectBegin(w, raw)
    \/ \E w \in Handles : AcceptReturns(w)
    \/ \E w \in Handles : AcceptRaises(w)
    \/ \E w \in Handles, raw \in RawCircuits, outcome \in SendOutcomes :
          ConnectRegister(w, raw, outcome)
    \/ \E w \in Handles, raw \in RawCircuits, to \in Handles, outcome \in SendOutcomes :
          ConnectAcceptFailed(w, raw, to, outcome)
    \/ \E w \in Handles : ReplayOver(w)
    \/ \E w \in Handles, to \in Handles, outcome \in SendOutcomes : ConnectReturn(w, to, outcome)
    \/ \E w \in Handles, message \in ClientTexts, outcome \in SendOutcomes :
          ReceiveText(w, message, outcome)
    \/ \E w \in Handles : PongOver(w)
    \/ \E w \in Handles : LoopEnds(w)
    \/ \E w \in Handles : EndpointClose(w)
    \/ BroadcastEnters(MaxOps)
    \/ \E raw \in RawCircuits, w \in Handles, outcome \in SendOutcomes : Broadcast(raw, w, outcome)
    \/ CallEnters("status")
    \/ \E raw \in RawCircuits, connected \in BOOLEAN, w \in Handles, outcome \in SendOutcomes :
          SendStatusUpdate(raw, connected, w, outcome)
    \/ CallEnters("error")
    \/ \E raw \in RawCircuits, w \in Handles, outcome \in SendOutcomes : SendError(raw, w, outcome)
    \/ \E o \in OpIds, w \in Handles, outcome \in SendOutcomes : Send(o, w, outcome)
    \/ \E o \in OpIds : CleanupEnters(o)
    \/ \E o \in OpIds : Finish(o)

Spec == Init /\ [][Next]_vars

SpecCollector == Init /\ [][NextCollector]_vars

SpecManager == Init /\ [][NextManager]_vars

\* the manager with its callers, the tasks of its collectors and the frames the upstream
\* of the first collector sends
NextStop == NextManager \/ NextReceive

SpecStop == Init /\ [][NextStop]_vars

\* one collector and the frames it receives
SpecFrames == Init /\ [][NextFrames]_vars

\* frames handed to broadcast_karting_data one after the other
SpecKartingData == InitStored /\ [][NextKartingData]_vars

\* frames and control requests given to the session of one circuit
SpecSession == Init /\ [][NextSession]_vars

\* the session with export, import and re-initialisation
SpecPersist == Init /\ [][NextPersist]_vars

\* one session manager asked about two circuits
SpecCircuits == Init /\ [][NextCircuits]_vars

\* update messages given to one parser as text
SpecText == Init /\ [][NextText]_vars

\* the event loop runs a call that is ready: a save the store answers returns
SpecWrite == InitStored /\ [][NextWrite]_vars /\ WF_vars(SaveReturns \/ SaveFails)

----------------------------------------------------------------------------
(* ConnectionManager used directly: connect is also called for a websocket that is *)
(* already attached (nothing in connect looks at connection_circuits first)        *)

\* connect returns to a caller other than websocket_endpoint
ConnectDone(w) ==
    /\ ep[w].pc = "replay"
    /\ _lock = Unlocked
    /\ ep' = [ep EXCEPT ![w] = [pc |-> "loop", circuit |-> <<>>]]
    /\ UNCHANGED <<circuit_connections, connection_circuits, last_data_cache, ops, nops, sent, _lock, collector_vars, manager_vars, data_vars>>

\* connect is called again for an attached websocket, its accept() has returned and it
\* enters its block
ReattachEnters(w) ==
    Acquire(Holder("connect", w, 0), ep[w].pc = "loop" /\ w \in DOMAIN connection_circuits)

\* connect, called again for an attached websocket, inside its block
Reattach(w, raw, outcome) ==
    /\ ep[w].pc = "loop"
    /\ w \in DOMAIN connection_circuits
    /\ connect(w, raw, outcome)

NextApi ==
    \/ \E w \in Handles, raw \in RawCircuits : ConnectBegin(w, raw)
    \/ \E w \in Handles : AcceptReturns(w)
    \/ \E w \in Handles, raw \in RawCircuits, outcome \in SendOutcomes :
          ConnectRegister(w, raw, outcome)
    \/ \E w \in Handles : ConnectDone(w)
    \/ \E w \in Handles : ReattachEnters(w)
    \/ \E w \in Handles, raw \in RawCircuits, outcome \in SendOutcomes : Reattach(w, raw, outcome)
    \/ \E w \in Handles : LoopEnds(w)
    \/ \E w \in Handles : EndpointClose(w)
    \/ BroadcastEnters(MaxOps)
    \/ \E raw \in RawCircuits, w \in Handles, outcome \in SendOutcomes : Broadcast(raw, w, outcome)
    \/ \E o \in OpIds, w \in Handles, outcome \in SendOutcomes : Send(o, w, outcome)
    \/ \E o \in OpIds : CleanupEnters(o)
    \/ \E o \in OpIds : Finish(o)

SpecApi == Init /\ [][NextApi]_vars

----------------------------------------------------------------------------
(* Late join: wA is attached to circuit "a" before the first broadcast; wB      *)
(* attaches at any time; broadcasts may overlap; no send fails.                 *)

InitLateJoin ==
    /\ circuit_connections = connect_registry(<< >>, "wA", CircuitA)
    /\ connection_circuits = connect_reverse(<< >>, "wA", CircuitA)
    /\ last_data_cache = << >>
    /\ ep = [w \in Handles |-> [pc |-> IF w = "wA" THEN "loop" ELSE "new", circuit |-> <<>>]]
    /\ ops = [o \in OpIds |-> IdleOp]
    /\ nops = 0
    /\ sent = [w \in Handles |-> <<>>]
    /\ _lock = Unlocked
    /\ InitCollector
    /\ InitManager
    /\ InitData(NewDocument)

BroadcastLate(raw, w) == broadcast(raw, MaxBroadcasts, w, Ok)

NextLateJoin ==
    \/ \E w \in Handles, raw \in RawCircuits : ConnectBegin(w, raw)
    \/ \E w \in Handles : AcceptReturns(w)
    \/ \E w \in Handles, raw \in RawCircuits : ConnectRegister(w, raw, Ok)
    \/ \E w \in Handles : ConnectDone(w)
    \/ BroadcastEnters(MaxBroadcasts)
    \/ \E raw \in RawCircuits, w \in Handles : BroadcastLate(raw, w)
    \/ \E o \in OpIds, w \in Handles : Send(o, w, Ok)
    \/ \E o \in OpIds : Finish(o)

SpecLateJoin == InitLateJoin /\ [][NextLateJoin]_vars

\* Replay failures: as the late join, and the replay send of connect may fail with a
\* text that names connection closed, broken pipe or connection reset; no other send fails.
NextReplay ==
    \/ \E w \in Handles, raw \in RawCircuits : ConnectBegin(w, raw)
    \/ \E w \in Handles : AcceptReturns(w)
    \/ \E w \in Handles, raw \in RawCircuits, outcome \in {Ok} \cup GoneTexts :
          ConnectRegister(w, raw, outcome)
    \/ \E w \in Handles : ReplayOver(w)
    \/ \E w \in Handles, to \in Handles : ConnectReturn(w, to, Ok)
    \/ \E w \in Handles : LoopEnds(w)
    \/ \E w \in Handles : EndpointClose(w)
    \/ BroadcastEnters(MaxBroadcasts)
    \/ \E raw \in RawCircuits, w \in Handles : BroadcastLate(raw, w)
    \/ \E o \in OpIds, w \in Handles : Send(o, w, Ok)
    \/ \E o \in OpIds : Finish(o)

SpecReplay == InitLateJoin /\ [][NextReplay]_vars

\* Two circuits side by side: wA is attached to circuit "a", the other websocket attaches
\* to any circuit, the control layer broadcasts, sends status updates and errors on any
\* circuit; no send fails.
NextApart ==
    \/ \E w \in Handles, raw \in RawCircuits : ConnectBegin(w, raw)
    \/ \E w \in Handles : AcceptReturns(w)
    \/ \E w \in Handles, raw \in RawCircuits : ConnectRegister(w, raw, Ok)
    \/ \E w \in Handles : ReplayOver(w)
    \/ \E w \in Handles, to \in Handles : ConnectReturn(w, to, Ok)
    \/ \E w \in Handles, message \in ClientTexts : ReceiveText(w, message, Ok)
    \/ \E w \in Handles : PongOver(w)
    \/ \E w \in Handles : LoopEnds(w)
    \/ \E w \in Handles : EndpointClose(w)
    \/ BroadcastEnters(MaxBroadcasts)
    \/ \E raw \in RawCircuits, w \in Handles : BroadcastLate(raw, w)
    \/ CallEnters("status")
    \/ \E raw \in RawCircuits, connected \in BOOLEAN, w \in Handles :
          SendStatusUpdate(raw, connected, w, Ok)
    \/ CallEnters("error")
    \/ \E raw \in RawCircuits, w \in Handles : SendError(raw, w, Ok)
    \/ \E o \in OpIds, w \in Handles : Send(o, w, Ok)
    \/ \E o \in OpIds : Finish(o)

SpecApart == InitLateJoin /\ [][NextApart]_vars

----------------------------------------------------------------------------
(* A subscriber that stops reading: wA and wB are attached to circuit "a"; at   *)
(* some time one of them reads no more, and from then on a send_json on it      *)
(* never completes; every other send completes.  The event loop runs every call *)
(* that is ready: a send that can complete does, and a call whose last send is  *)
(* over returns.                                                                 *)

InitStall ==
    /\ circuit_connections = connect_registry(connect_registry(<< >>, "wA", CircuitA), "wB", CircuitA)
    /\ connection_circuits = connect_reverse(connect_reverse(<< >>, "wA", CircuitA), "wB", CircuitA)
    /\ last_data_cache = << >>
    /\ ep = [w \in Handles |-> [pc |-> "loop", circuit |-> <<>>]]
    /\ ops = [o \in OpIds |-> IdleOp]
    /\ nops = 0
    /\ sent = [w \in Handles |-> <<>>]
    /\ _lock = Unlocked
    /\ InitCollector
    /\ InitManager
    /\ InitData(NewDocument)

\* the peer of websocket w stops reading
StopsReading(w) ==
    /\ stalled = {}
    /\ stalled' = {w}
    /\ UNCHANGED <<fanout_vars, collector_vars, manager_vars, frame_vars, karting_vars,
                   session_vars, persist_vars, twin_vars, text_vars, write_vars>>

\* one iteration of "for websocket in connections" whose "await websocket.send_json"
\* never completes: the call stays in this await with the rest of its copy unsent
stall_one(op, w) == [op EXCEPT !.pc = "blocked", !.todo = @ \ {w}]

\* _broadcast_message_to_circuit whose first send is to a subscriber that reads no more
BroadcastStalls(raw, w) ==
    /\ nops < MaxBroadcasts
    /\ Room
    /\ Strip(raw) \in DOMAIN circuit_connections
    /\ w \in circuit_connections[Strip(raw)] \cap stalled
    /\ nops' = nops + 1
    /\ LET circuit_id == Strip(raw)
           message_data == [type |-> "karting_data", message_count |-> nops + 1]
           op == [kind |-> "broadcast", pc |-> "send", circuit |-> circuit_id,
                  data |-> message_data, todo |-> circuit_connections[circuit_id],
                  disconnected |-> <<>>, gone |-> {}]
       IN  /\ ops' = [ops EXCEPT ![nops + 1] = stall_one(op, w)]
           /\ last_data_cache' = DictSet(last_data_cache, circuit_id, message_data)
    /\ _lock = Holder("broadcast", "", nops + 1)
    /\ _lock' = release(Holder("broadcast", "", nops + 1))
    /\ UNCHANGED <<circuit_connections, connection_circuits, ep, sent,
                   collector_vars, manager_vars, data_vars>>

\* the previous send is over; the next one is to a subscriber that reads no more
SendStalls(o, w) ==
    /\ _lock = Unlocked
    /\ ops[o].pc = "send"
    /\ w \in ops[o].todo \cap stalled
    /\ ops' = [ops EXCEPT ![o] = stall_one(@, w)]
    /\ UNCHANGED <<circuit_connections, connection_circuits, last_data_cache, ep, nops, sent, _lock,
                   collector_vars, manager_vars, data_vars>>

\* a send to a subscriber that reads completes
SendCompletes == \E o \in OpIds, w \in Handles \ stalled : Send(o, w, Ok)

\* a call whose last send is over returns
CallReturns == \E o \in OpIds : Finish(o)

\* a _broadcast_message_to_circuit call that has entered its block runs on to its first
\* send
BroadcastRuns ==
    \/ \E raw \in RawCircuits, w \in Handles \ stalled : BroadcastLate(raw, w)
    \/ \E raw \in RawCircuits, w \in Handles : BroadcastStalls(raw, w)

NextStall ==
    \/ \E w \in Handles : StopsReading(w)
    \/ BroadcastEnters(MaxBroadcasts)
    \/ BroadcastRuns
    \/ \E o \in OpIds, w \in Handles : SendStalls(o, w)
    \/ SendCompletes
    \/ CallReturns

SpecStall ==
    /\ InitStall /\ [][NextStall]_vars
    /\ WF_vars(BroadcastRuns) /\ WF_vars(SendCompletes) /\ WF_vars(CallReturns)

----------------------------------------------------------------------------
(* Delta frames in two orders: two DriverStateManager objects with the same     *)
(* mapping are each given delta frames, one after the other.                    *)

\* the mappings of the scenario: one field per column, and one field for two columns
DeltaMappings == { [C1 |-> "Classement", C2 |-> "Kart"], [C1 |-> "Kart", C2 |-> "Kart"] }

\* lines r1c{col}|in|{value}
DeltaLines == {[driver |-> "1", col |-> col, code |-> "in", value |-> value] :
                  col \in {1, 2}, value \in {"7", "9"}}

\* delta frames of one line, and one of two lines with the higher column first
DeltaFrames ==
    {Delta(<<line>>) : line \in DeltaLines}
        \cup {Delta(<<[driver |-> "1", col |-> 2, code |-> "in", value |-> "9"],
                      [driver |-> "1", col |-> 1, code |-> "in", value |-> "7"]>>)}

InitDeltas ==
    /\ InitFanout
    /\ InitCollector
    /\ InitManager
    /\ InitFrames
    /\ InitKartingData(NewDocument)
    /\ stalled = {}
    /\ \E mappings \in DeltaMappings :
          /\ karting_parser = KartingMessageParser(mappings)
          /\ current_circuit_mappings = mappings
          /\ exported = session_view(KartingMessageParser(mappings), << >>)
          /\ twin_parser = KartingMessageParser(mappings)
    /\ merged_states = << >>
    /\ static_data = << >>
    /\ current_circuit_id = "a"
    /\ blob = NoBlob
    /\ twin_merged = << >>
    /\ InitText
    /\ InitWrite

\* process_websocket_message on the second DriverStateManager
TwinProcessWebsocketMessage(frame) ==
    /\ twin_parser.message_count < MaxMessages
    /\ LET after == process_websocket_message(twin_parser, twin_merged, << >>, frame)
       IN  /\ twin_parser' = after.parser
           /\ twin_merged' = after.merged
    /\ UNCHANGED <<fanout_vars, collector_vars, manager_vars, frame_vars, karting_vars,
                   session_vars, persist_vars, channel_vars, text_vars, write_vars>>

NextDeltas ==
    \/ \E frame \in DeltaFrames : ProcessWebsocketMessage(frame)
    \/ \E frame \in DeltaFrames : TwinProcessWebsocketMessage(frame)

SpecDeltas == InitDeltas /\ [][NextDeltas]_vars

----------------------------------------------------------------------------
(* Registry and reverse map *)

\* C1: a websocket is in the subscriber set of circuit c exactly when the reverse map
\* sends it to c, in every state, also after connect on an already attached websocket.
\* Fails under SpecApi: connect(w, "a") then connect(w, "b") leaves w in the set of "a".
C1_RegistryMatchesReverse ==
    /\ \A c \in DOMAIN circuit_connections : \A w \in circuit_connections[c] :
          w \in DOMAIN connection_circuits /\ connection_circuits[w] = c
    /\ \A w \in DOMAIN connection_circuits :
          /\ connection_circuits[w] \in DOMAIN circuit_connections
          /\ w \in circuit_connections[connection_circuits[w]]

\* C2: the manager never has two collector tasks alive for one circuit, whatever the
\* interleaving of start_collector and stop_collector calls.  Fails: two start_collector
\* calls waiting for the same cancelled task each create a collector when they resume.
C2_OneTaskPerCircuit == Cardinality({k \in CollectorIds : Live(k)}) <= 1

----------------------------------------------------------------------------
(* Cache and replay *)

\* C3: a broadcast of payload p to circuit c leaves last_data_cache[c] = p, whether or
\* not c has a subscriber.  Fails: without a subscriber set the call returns before
\* the cache is written.
C3_BroadcastCaches ==
    [][\A raw \in RawCircuits, w \in Handles, outcome \in SendOutcomes :
          Broadcast(raw, w, outcome) =>
             /\ Strip(raw) \in DOMAIN last_data_cache'
             /\ last_data_cache'[Strip(raw)] = [type |-> "karting_data", message_count |-> nops']
      ]_vars

\* C4: connect registers the websocket on the circuit and then, when the cache holds a
\* payload for the circuit, sends it one cached_data message carrying exactly that
\* payload; with no cached payload nothing is sent to it.
C4_ReplayOnAttach ==
    [][\A w \in Handles :
          (ep[w].pc = "registering" /\ ep'[w].pc = "replay") =>
             LET c == Strip(ep'[w].circuit)
             IN  /\ c \in DOMAIN circuit_connections'
                 /\ w \in circuit_connections'[c]
                 /\ w \in DOMAIN connection_circuits'
                 /\ connection_circuits'[w] = c
                 /\ IF c \in DOMAIN last_data_cache
                    THEN \E ok \in BOOLEAN :
                            sent'[w] = << [msg |-> [type |-> "cached_data",
                                                    data |-> last_data_cache[c]],
                                           ok |-> ok] >>
                    ELSE sent'[w] = sent[w]
      ]_vars

\* C4 witness: a websocket in connect, registered, whose last message is the replay of
\* the payload the cache holds
C4_Replayed ==
    \E w \in Handles :
        /\ ep[w].pc = "replay"
        /\ w \in DOMAIN connection_circuits
        /\ connection_circuits[w] \in DOMAIN last_data_cache
        /\ sent[w] = << [msg |-> [type |-> "cached_data",
                                   data |-> last_data_cache[connection_circuits[w]]],
                          ok |-> TRUE] >>

\* the data payload a message carries
data_payload(rec) == rec.msg.data

Quiescent == \A o \in OpIds : ~InFlight(o)

\* C5: wA attached before the first broadcast, wB attached later: once every send is
\* over, the last data payload wB was sent is the last one wA was sent.  Fails when two
\* broadcast calls overlap: the second call finishes between two sends of the first.
C5_LateJoinerConverges ==
    ( /\ Quiescent
      /\ ep["wB"].pc = "loop"
      /\ CircuitA \in DOMAIN circuit_connections
      /\ circuit_connections[CircuitA] = {"wA", "wB"}
      /\ sent["wA"] # <<>>
      /\ sent["wB"] # <<>> )
    => data_payload(sent["wA"][1]) = data_payload(sent["wB"][1])

----------------------------------------------------------------------------
(* Failed sends *)

registered(cc, rc, w) == w \in DOMAIN rc \/ \E c \in DOMAIN cc : w \in cc[c]

\* a step in which call o returns after its cleanup
Returns(o) == ops[o].pc = "send" /\ ops'[o].pc = "done"

\* C6: when a send of broadcast, send_status_update or send_error to websocket s fails
\* with a text naming connection closed, broken pipe or connection reset, s is in
\* neither the registry nor the reverse map when the call returns.
C6_GoneIsDetached ==
    [][\A o \in OpIds :
          Returns(o) =>
             \A w \in ops[o].gone : ~registered(circuit_connections', connection_circuits', w)
      ]_vars

\* C6 witness: a websocket whose endpoint is still in its receive loop, whose last send
\* failed, and which a finished call has taken out of the registry and the reverse map
C6_Detached ==
    \E w \in Handles :
        /\ Quiescent
        /\ ep[w].pc = "loop"
        /\ sent[w] # <<>>
        /\ ~sent[w][1].ok
        /\ sent[w][1].msg.type = "karting_data"
        /\ ~registered(circuit_connections, connection_circuits, w)

\* the circuits whose subscriber set holds w
circuits_of(cc, w) == {c \in DOMAIN cc : w \in cc[c]}

\* C7: a send that fails with any other text detaches nothing: a returning call removes
\* only the websockets whose failure named connection closed, broken pipe or connection
\* reset, and the next broadcast to the circuit takes every registered websocket.
C7_OtherErrorsKeep ==
    [][\A o \in OpIds :
          /\ Returns(o) =>
                \A w \in Handles \ ops[o].gone :
                    /\ circuits_of(circuit_connections', w) = circuits_of(circuit_connections, w)
                    /\ (w \in DOMAIN connection_circuits') = (w \in DOMAIN connection_circuits)
          /\ (ops[o].pc = "idle" /\ ops'[o].pc = "send" /\ ops'[o].kind = "broadcast") =>
                \E w \in Handles \ ops'[o].todo :
                    ops'[o].todo \cup {w} = circuit_connections[ops'[o].circuit]
      ]_vars

\* C7 witness: every call has returned, the last send to a websocket failed, and the
\* websocket is still registered
C7_KeptAfterFailure ==
    \E w \in Handles :
        /\ Quiescent
        /\ ep[w].pc = "loop"
        /\ sent[w] # <<>>
        /\ ~sent[w][1].ok
        /\ sent[w][1].msg.type = "karting_data"
        /\ w \in DOMAIN connection_circuits
        /\ w \in circuit_connections[connection_circuits[w]]

----------------------------------------------------------------------------
(* Reconnect loop of the collector *)

\* the delay the k-th consecutive reconnect attempt waits: 5, 10, 20, 40, 60, 60, ...
backoff_delay(k) == IF 5 * (2 ^ (k - 1)) <= 60 THEN 5 * (2 ^ (k - 1)) ELSE 60

\* the time of the k-th consecutive reconnect attempt after the first failure: 5, 15, 35, ...
RECURSIVE attempt_time(_)
attempt_time(k) == IF k = 0 THEN 0 ELSE attempt_time(k - 1) + backoff_delay(k)

\* C8: the k-th consecutive reconnect attempt waits min(5 * 2^(k-1), 60) seconds, so the
\* attempts are made 5, 15, 35, ... seconds after the first failure.  Fails: the counter
\* is incremented before the delay is computed, so the first wait is 10 seconds.
C8_BackoffSchedule ==
    (cpc = "connecting" /\ reconnect_attempts >= 1) =>
        /\ delay = backoff_delay(reconnect_attempts)
        /\ elapsed = attempt_time(reconnect_attempts)

\* C9: when the reconnect budget is used up the collector is stopped: start() has left
\* its loop and the status reports the collector as not running.  Fails: break leaves
\* is_running set.
C9_ExhaustedIsStopped == cpc = "broke" => ~get_status.is_running

\* C10: when the collector stops on an exhausted budget, the subscribers have been sent
\* a status_update with timing_connected false.  Fails when the upstream never
\* connected: only the error callback is invoked.
C10_ExhaustedNotifies == cpc = "broke" => status_sent = << FALSE >>

\* C11: each loss of the streaming connection is reported to the subscribers as
\* timing_connected false and each successful connection or reconnection as
\* timing_connected true, one report per transition and in the order of the transitions.
C11_TransitionsReported ==
    [][/\ (cpc = "connecting" /\ cpc' = "reporting_connected") => status_sent' = << TRUE >>
       /\ (cpc = "streaming" /\ cpc' # "streaming") => status_sent' = << FALSE >>
       /\ (status_sent' # status_sent) =>
             \/ cpc = "connecting" /\ cpc' = "reporting_connected"
             \/ cpc = "streaming" /\ cpc' # "streaming"
      ]_vars

\* C11 witness: the upstream was connected, was lost, and the collector is in its error
\* handling with timing_connected false reported last
C11_LossReported ==
    /\ cpc = "handling_error"
    /\ is_running
    /\ ~is_connected
    /\ status_sent = << FALSE >>

\* a step in which caller x returns from stop_collector
StopReturns(x) == calls[x].pc # "returned" /\ calls'[x].pc = "returned" /\ calls'[x].op = "stop"

\* caller x is in a stop_collector call on the first collector: about to make it, or
\* suspended in it on the task of that collector
StopsFirst(x) ==
    \/ calls[x].pc = "awaiting" /\ calls[x].task = First
    \/ calls[x].pc = "idle" /\ CircuitA \in DOMAIN collectors /\ collectors[CircuitA] = First

\* C12: at the return of stop_collector(c), circuit c has no collector registered and the
\* task of the collector the call stopped is done, whatever that task was doing
\* (connecting, streaming, sleeping in backoff): it has ended by CancelledError or had
\* ended before by break, the collector is neither running nor connected and its
\* heartbeat task sleeps no more.  From collector.stop() on, the task processes no frame
\* and opens no connection: its only steps are the finally block of the receive loop and
\* its end; once it is done nothing of the collector changes but is_running, which a
\* later stop() clears.
C12_StoppedForGood ==
    [][/\ \A x \in Callers :
             StopReturns(x) =>
                /\ CircuitA \notin DOMAIN collectors'
                /\ calls[x].pc = "awaiting" => task_state'[calls[x].task] = "done"
                /\ (calls[x].pc = "idle" /\ CircuitA \in DOMAIN collectors) =>
                       task_state'[collectors[CircuitA]] = "done"
                /\ StopsFirst(x) =>
                       /\ cpc' \in {"broke", "cancelled"}
                       /\ ~is_running'
                       /\ ~is_connected'
                       /\ heartbeat_task' # "sleeping"
       /\ task_state[First] = "cancelling" =>
             /\ cpc' \in {cpc, "reporting_cancelled", "cancelled"}
             /\ ~is_running' /\ ~is_connected'
             /\ message_count' = message_count /\ handled' = handled
             /\ last_data' = last_data /\ data_handed' = data_handed
       /\ task_state[First] = "done" =>
             /\ task_state'[First] = "done"
             /\ cpc' = cpc /\ ~is_connected'
             /\ heartbeat_task' = heartbeat_task /\ status_sent' = status_sent
             /\ message_count' = message_count /\ handled' = handled /\ inbox' = inbox
             /\ last_data' = last_data /\ data_handed' = data_handed
      ]_vars

\* C12 witness: a stop_collector call has returned after it stopped the first collector in
\* its receive loop, the connection open, a frame processed and another one waiting: the
\* task has ended through the finally block, the waiting frame was never read, the
\* heartbeat task is gone and the circuit has no collector
C12_StopReturned ==
    /\ \E x \in Callers : calls[x].op = "stop" /\ calls[x].pc = "returned"
    /\ CircuitA \notin DOMAIN collectors
    /\ task_state[First] = "done"
    /\ ncreated = 1
    /\ cpc = "cancelled"
    /\ ~is_running /\ ~is_connected
    /\ status_sent = << FALSE >>
    /\ heartbeat_task = "none"
    /\ message_count = 1
    /\ inbox # << >>

----------------------------------------------------------------------------
(* From the upstream frame to the subscribers *)

\* C13: every frame the collector receives while streaming is decoded and its result is
\* handed on towards the fan-out manager, so that the subscribers of the circuit get a
\* karting_data message for it.  Fails: start_timing registers no on_data callback, so
\* _handle_data hands the frame to nobody; frames after the third that repeat the
\* previous mapped_data are dropped before _handle_data as well.
C13_FramesReachFanout ==
    [][(message_count' = message_count + 1) => (data_handed' = data_handed + 1)]_vars

\* the columns of driver d received so far that the active mapping covers
covered(d) == {k \in DOMAIN seen[d] : k \in DOMAIN active}

\* C14: every karting_data payload carries every driver reported so far and, for each,
\* every mapped field reported so far with its latest value, not only what the frame
\* that triggered the broadcast names.  Fails: broadcast_karting_data parses each frame
\* with a new parser and sends the mapped_data of that frame alone.
C14_PayloadIsComplete ==
    payload.type = "karting_data" =>
        \A d \in DOMAIN seen :
            /\ d \in DOMAIN payload.drivers
            /\ \A k \in covered(d) :
                  /\ active[k] \in DOMAIN payload.drivers[d]
                  /\ \E j \in covered(d) :
                        active[j] = active[k] /\ payload.drivers[d][active[k]] = seen[d][j][2]

\* the field names the active mapping assigns
codomain(mapping) == {mapping[k] : k \in DOMAIN mapping}

\* C15: every field name of a driver record in a broadcast payload is a field of the
\* active mapping or is driver_id; a raw column the mapping does not cover appears in no
\* record, neither under its Cn name nor otherwise.  Fails: _apply_circuit_mappings uses
\* the column key itself as the field name of a column the mapping does not have.
C15_OnlyMappedFields ==
    payload.type = "karting_data" =>
        \A d \in DOMAIN payload.drivers :
            \A key \in DOMAIN payload.drivers[d] :
                key \in codomain(active) \cup {"driver_id"}

----------------------------------------------------------------------------
(* The session of a circuit *)

\* a step in which a frame given to the session replaces the parser's mapping
NewMappingInferred ==
    /\ nmessages' = nmessages + 1
    /\ karting_parser'.circuit_mappings # karting_parser.circuit_mappings

\* C16: when a snapshot brings a newly inferred mapping, afterwards every driver record
\* of the session, also of a driver the frame does not name, has the new mapping's field
\* for each of its raw columns and keeps no field name that only the old mapping had.
\* Fails: the header replaces circuit_mappings without a remap, and only the drivers of
\* the frame are merged, on top of their old records.
C16_RemapOnNewMapping ==
    [][NewMappingInferred =>
          \A d \in DOMAIN merged_states' :
              /\ \A key \in DOMAIN merged_states'[d] :
                    key \in codomain(karting_parser.circuit_mappings) =>
                        key \in codomain(karting_parser'.circuit_mappings)
              /\ \A k \in DOMAIN Get(karting_parser'.raw_data, d, << >>) :
                    k \in DOMAIN karting_parser'.circuit_mappings =>
                        karting_parser'.circuit_mappings[k] \in DOMAIN merged_states'[d]
      ]_vars

\* a step of update_circuit_mappings that replaces an inferred mapping while raw data
\* is held
MappingOverridden ==
    /\ nmessages' = nmessages
    /\ karting_parser'.circuit_mappings # karting_parser.circuit_mappings
    /\ karting_parser.circuit_mappings \in {detected_mappings(header) : header \in Headers}
    /\ karting_parser.raw_data # << >>

\* C17: once raw data has been received and a mapping inferred, after
\* update_circuit_mappings(m) the projection get_all_driver_states has every driver of the
\* raw table, and the fields of a driver are exactly those m assigns to its raw columns
\* (besides driver_id).  Fails: update_circuit_mappings remaps only when driver_states is
\* not empty, and nothing but an import ever fills driver_states.
C17_OverrideIsProjected ==
    [][MappingOverridden =>
          LET projection == get_all_driver_states(karting_parser')
              m == karting_parser'.circuit_mappings
          IN  \A d \in DOMAIN karting_parser'.raw_data :
                  /\ d \in DOMAIN projection
                  /\ DOMAIN projection[d] \ {"driver_id"} =
                        {m[k] : k \in DOMAIN karting_parser'.raw_data[d] \cap DOMAIN m}
      ]_vars

----------------------------------------------------------------------------
(* The payload and the order of its columns *)

\* the lowest column index the mapping gives to a field
first_column(mapping, field) == CHOOSE i \in ColumnIx :
    /\ UpperKeys[i] \in DOMAIN mapping /\ mapping[UpperKeys[i]] = field
    /\ \A j \in ColumnIx : (UpperKeys[j] \in DOMAIN mapping /\ mapping[UpperKeys[j]] = field) => i <= j

\* order lists the fields of the mapping, each once, by ascending column index
is_column_order(order, mapping) ==
    /\ {order[i] : i \in DOMAIN order} = codomain(mapping)
    /\ \A i, j \in DOMAIN order :
          i < j => first_column(mapping, order[i]) < first_column(mapping, order[j])

\* C18: every karting_data payload has a column_order field listing the fields of the
\* active mapping by ascending Cn index, each field once, also when two header columns
\* translate to the same field.  Fails: the message broadcast_karting_data builds has
\* no column_order field at all.
C18_PayloadHasColumnOrder ==
    payload.type = "karting_data" =>
        /\ "column_order" \in DOMAIN payload
        /\ is_column_order(payload.column_order, active)

----------------------------------------------------------------------------
(* What the metadata store is told after a snapshot *)

\* the last frame was a snapshot
SnapshotProcessed == nmessages > 0 /\ last_frame.init /\ last_frame.grid

\* the number of column mappings the header row of the last frame produces
inferred_count ==
    IF header_raises(last_frame.header) THEN 0
    ELSE Cardinality(DOMAIN detected_mappings(last_frame.header))

\* the document received the "needs configuration" update: c1..c14 null and the
\* auto-detection-failed flag
write_needs_configuration ==
    \E i \in DOMAIN requests :
        /\ requests[i].request = "save_null_mappings_to_circuit"
        /\ \A j \in ColumnIx : requests[i].update_data[LowerKeys[j]] = None
        /\ requests[i].update_data.autoDetectionFailed

\* the document received a mapping update
write_mapping == \E i \in DOMAIN requests : requests[i].request = "update_circuit_mappings"

\* the store took every update the call sent it: no update was refused
StoreTakesUpdates ==
    \E reads \in ReadAnswers :
        /\ mappings_read' = stored_mappings(store, reads[1], reads[2])
        /\ requests' = karting_call(store, reads[1], reads[2], last_frame').reqs

\* C19: after a snapshot whose header row gives fewer than 3 column mappings, with or
\* without driver rows, the store (which refuses no update) has received
\* write_needs_configuration and no write_mapping.  Fails: with driver rows the parse succeeds and the null save is not
\* attempted; without rows it is attempted with run_until_complete inside the running
\* event loop, which raises before anything is written.
C19_FailedInferenceIsRecorded ==
    [][(nmessages' = nmessages + 1 /\ StoreTakesUpdates /\ SnapshotProcessed' /\ inferred_count' < 3)
          => (write_needs_configuration' /\ ~write_mapping')]_vars

\* C20: after a snapshot whose header row gives at least 3 column mappings, with or
\* without driver rows, the store (which refuses no update) has received write_mapping
\* with exactly the inferred mapping, c1..c14, the columns the header does not have
\* being null, and no write_needs_configuration.  Fails: without driver rows nothing is written; with rows
\* the update carries only the columns of the header.
C20_InferredMappingIsRecorded ==
    [][(nmessages' = nmessages + 1 /\ StoreTakesUpdates /\ SnapshotProcessed' /\ inferred_count' >= 3) =>
          /\ \E i \in DOMAIN requests' :
                /\ requests'[i].request = "update_circuit_mappings"
                /\ \A j \in ColumnIx :
                      /\ LowerKeys[j] \in DOMAIN requests'[i].update_data
                      /\ requests'[i].update_data[LowerKeys[j]] =
                            Get(detected_mappings(last_frame'.header), UpperKeys[j], None)
          /\ ~write_needs_configuration'
      ]_vars

\* C21: importing the blob of an export gives the session the mapping, the raw column
\* table and the driver records it had when the blob was exported, whatever the session
\* received or was told between the export and the import.
C21_ImportRestoresExport ==
    [][ImportSession => session_view(karting_parser', merged_states') = exported]_vars

\* every (driver, Cn) entry of the raw table and every driver record is still there
\* after the step
entries_kept ==
    /\ \A d \in DOMAIN karting_parser.raw_data :
          /\ d \in DOMAIN karting_parser'.raw_data
          /\ DOMAIN karting_parser.raw_data[d] \subseteq DOMAIN karting_parser'.raw_data[d]
    /\ DOMAIN merged_states \subseteq DOMAIN merged_states'

\* C22: the raw column table and the driver records lose an entry only by a clear-session
\* request (or by the import of an older blob, or when the session is given to another
\* circuit): further frames, mapping changes and the re-initialisation of the circuit
\* keep every (driver, Cn) entry and every driver record.
C22_OnlyClearDropsEntries ==
    [][~(ClearSessionData \/ ImportSession \/ current_circuit_id' # current_circuit_id) => entries_kept]_vars

\* C28: a clear request that names a circuit other than the one whose session the
\* process holds leaves that session's raw table and driver records as they are.
C28_ClearIsPerCircuit ==
    [][\A circuit_id \in SessionCircuits, found \in BOOLEAN :
          (circuit_id # current_circuit_id /\ ClearDriverSession(circuit_id, found))
              => UNCHANGED <<karting_parser.raw_data, merged_states>>]_vars

\* C23: when accept() raises in connect, the attach is given up: the registry and the
\* reverse map are as before (the websocket is in neither, every subscriber count is
\* unchanged) and nothing is sent to the websocket.
C23_FailedAcceptAttachesNothing ==
    [][\A w \in Handles :
          (ep[w].pc = "refused" /\ ep'[w].pc = "loop") =>
             /\ circuit_connections' = circuit_connections
             /\ connection_circuits' = connection_circuits
             /\ ~registered(circuit_connections', connection_circuits', w)
             /\ sent'[w] = sent[w]
      ]_vars

\* C23 witness: a websocket whose accept() failed (its endpoint went on, nothing was ever
\* sent to it, it is registered nowhere) beside a registered subscriber
C23_AcceptFailed ==
    \E w \in Handles :
        /\ ep[w].pc = "loop"
        /\ sent[w] = <<>>
        /\ ~registered(circuit_connections, connection_circuits, w)
        /\ \E other \in Handles \ {w} : other \in DOMAIN connection_circuits

\* C24: when the replay send of connect fails with a text naming connection closed,
\* broken pipe or connection reset, the websocket is in neither the registry nor the
\* reverse map when connect returns.  (Under SpecReplay a failed send is a replay send
\* that failed with such a text.)
C24_FailedReplayDetaches ==
    [][\A w \in Handles :
          ( /\ ep[w].pc = "replay" /\ ep'[w].pc = "loop"
            /\ sent[w] # <<>>
            /\ sent[w][1].msg.type = "cached_data"
            /\ ~sent[w][1].ok )
          => ~registered(circuit_connections', connection_circuits', w)
      ]_vars

\* C25: while the collector is streaming, a heartbeat send that fails is a connection
\* failure: with that step the collector leaves streaming and is connected no more.
C25_HeartbeatFailureEndsStreaming ==
    [][(heartbeat_task = "sleeping" /\ heartbeat_task' = "ended")
          => (cpc' # "streaming" /\ ~is_connected')]_vars

\* C26: a subscriber whose send never completes holds up its own send only: every other
\* subscriber a broadcast call has still to send to is eventually sent the payload.
C26_StallIsLocal ==
    \A o \in 1..MaxBroadcasts : \A w \in Handles :
        (ops[o].pc \in {"send", "blocked"} /\ w \in ops[o].todo /\ w \notin stalled)
            ~> (w \notin ops[o].todo \/ w \in stalled)

\* C27: every websocket is sent the payloads of the broadcast calls on its circuit in
\* the order in which the calls were issued, also when calls overlap: a karting_data
\* message sent to w carries a later payload than the karting_data message sent to w
\* before it.
C27_PayloadsInIssueOrder ==
    [][\A w \in Handles :
          ( /\ sent'[w] # sent[w]
            /\ sent[w] # <<>>
            /\ sent[w][1].msg.type = "karting_data"
            /\ sent'[w][1].msg.type = "karting_data" )
          => data_payload(sent'[w][1]).message_count > data_payload(sent[w][1]).message_count
      ]_vars

\* C29: the frames of a collector are processed in the order of their arrival, each one
\* once and none before the one before it is done: the frames given to _process_message
\* so far are the first arrivals, in order, the waiting ones are the arrivals after
\* them, in order, and message_count counts the frames processed.
C29_FramesInArrivalOrder ==
    /\ handled = [i \in 1..Len(handled) |-> i]
    /\ message_count = Len(handled)
    /\ Len(inbox) = narrived - Len(handled)
    /\ \A i \in 1..Len(inbox) : inbox[i].seq = Len(handled) + i

\* C29 witness: two frames were processed while a third, different from the second,
\* was already waiting, and a fourth waits behind it
C29_TwoProcessedTwoWaiting ==
    /\ handled = <<1, 2>>
    /\ Len(inbox) = 2
    /\ inbox[1].data # inbox[2].data
    /\ last_data # inbox[1].data

\* C30: under a fixed mapping the driver records depend only on the latest (code, value)
\* of every (driver, Cn): two sessions that were given delta frames and hold the same raw
\* table hold the same driver records, whatever the order of the frames.
C30_RecordsDependOnLatestOnly ==
    karting_parser.raw_data = twin_parser.raw_data => merged_states = twin_merged

----------------------------------------------------------------------------
(* Records of an update message *)

\* the texts of the column indexes 1..14
ColumnTexts ==
    {<<"1">>, <<"2">>, <<"3">>, <<"4">>, <<"5">>, <<"6">>, <<"7">>, <<"8">>, <<"9">>,
     <<"1", "0">>, <<"1", "1">>, <<"1", "2">>, <<"1", "3">>, <<"1", "4">>}

Digits == {"0", "1", "2", "3", "4", "5", "6", "7", "8", "9"}

Alphanumeric == Digits \cup {LowerChars[i] : i \in DOMAIN LowerChars} \cup {UpperChars[i] : i \in DOMAIN UpperChars}

\* the places of ident where it divides into r<driver_id>c<column_index>: an r, a
\* non-empty alphanumeric driver_id, a c, a column index of 1..14
divisions(ident) ==
    {p \in DOMAIN ident :
        /\ ident[1] = "r"
        /\ p > 2
        /\ ident[p] = "c"
        /\ \A i \in 2..(p - 1) : ident[i] \in Alphanumeric
        /\ SubSeq(ident, p + 1, Len(ident)) \in ColumnTexts}

\* a well-formed record: three fields, the first an ident r<driver_id>c<column_index>
well_formed(line) ==
    /\ Len(split(Strip(line), "|")) = 3
    /\ divisions(split(Strip(line), "|")[1]) # {}

\* the update of a well-formed record: (driver_id, C<column_index>) <- (code, value)
well_formed_record(line) ==
    LET parts == split(Strip(line), "|")
        p == CHOOSE p \in divisions(parts[1]) : TRUE
    IN  [skipped |-> FALSE, driver_id |-> SubSeq(parts[1], 2, p - 1),
         col |-> SubSeq(parts[1], p + 1, Len(parts[1])),
         column_key |-> <<"C">> \o SubSeq(parts[1], p + 1, Len(parts[1])),
         code |-> parts[2], value |-> parts[3]]

\* the updates of the well-formed records of a message, in the order of its lines
well_formed_records(message) ==
    LET lines == SelectSeq(split(Strip(message), "\n"), well_formed)
    IN  [i \in DOMAIN lines |-> well_formed_record(lines[i])]

\* C31: the raw-table updates of an update message are exactly those of its well-formed
\* records: after the message the raw table is the table before it with
\* (driver_id, C<column_index>) <- (code, value) written for every well-formed record,
\* and nothing written for any other line.
C31_WellFormedRecordsOnly ==
    text_raw = text_store_raw(text_before, well_formed_records(text_message))

\* C32: a record whose column index is outside 1..14 is skipped: the raw table and the
\* drivers of the payload are those the message gives without such records, so no raw
\* entry, no driver and no payload field comes from them.
C32_OutOfRangeIsSkipped ==
    LET in_range == SelectSeq(pipe_records(text_message), LAMBDA rec : rec.col \in ColumnTexts)
    IN  /\ text_raw = text_store_raw(text_before, in_range)
        /\ text_drivers = text_simple_drivers(TextMappings, in_range)

----------------------------------------------------------------------------
(* Header rows with empty cells *)

\* the header cells whose text is not empty
named_cells(header) == {i \in DOMAIN header : header[i].text # ""}

\* C33: a snapshot whose header row has exactly 2 cells with a non-empty text, however
\* many cells with an empty text it has besides, fails inference, and the mapping the
\* parser uses after it is the mapping it had before the frame.
C33_TwoNamedColumnsFail ==
    [][( /\ nmessages' = nmessages + 1
         /\ last_frame'.init /\ last_frame'.grid
         /\ Cardinality(named_cells(last_frame'.header)) = 2 )
          => ( /\ ~auto_detection_success(last_frame'.header)
               /\ active' = mappings_read' )]_vars

----------------------------------------------------------------------------
(* The registry lock and network I/O *)

\* C34: the registry lock is not held by a call while that call awaits a send to a
\* subscriber or a handshake: a fan-out call in its send loop (also when its send is
\* stalled) does not hold the lock, and an endpoint that awaits accept() or the replay
\* send of its connect, or the send of a pong, does not hold it; another call may hold
\* it meanwhile, so the attach or detach of another subscriber is not kept waiting by a
\* send.
C34_NoLockDuringIO ==
    /\ \A o \in OpIds : ops[o].pc \in {"send", "blocked"} => _lock.op # o
    /\ \A w \in Handles :
          ep[w].pc \in {"accepting", "replay", "pong"} => _lock # Holder("connect", w, 0)

\* C34 witness: while a call awaits a send to a subscriber of a circuit, the connect of
\* another websocket to that circuit, past its accept(), holds the lock, inside its block
C34_AttachedDuringSend ==
    \E o \in OpIds, w \in Handles :
        /\ ops[o].pc = "send"
        /\ ep[w].pc = "registering"
        /\ Strip(ep[w].circuit) = ops[o].circuit
        /\ w \notin DOMAIN connection_circuits
        /\ _lock = Holder("connect", w, 0)

----------------------------------------------------------------------------
(* Frames and the metadata store *)

\* C35: frame processing does not wait for the metadata store: a frame whose call has
\* reached the save of its mappings has its payload given to the fan-out, also when the
\* store never answers the save.
C35_BroadcastDoesNotWaitForStore ==
    \A n \in 1..MaxMessages :
        (pending.waiting /\ pending.frame_no = n) ~> (pending.broadcast = n)

----------------------------------------------------------------------------
(* Status updates and the state of the upstream *)

\* C36: subscribers are sent a status_update with timing_connected true only at a moment
\* when the collector of the circuit holds an open upstream connection; in particular
\* the status update that websocket_endpoint sends after the attach of a new subscriber
\* says timing_connected true only then.
C36_ConnectedStatusIsTrue ==
    [][\A w \in Handles :
          ( /\ ops[EndpointOp(w)].pc = "idle"
            /\ ops'[EndpointOp(w)].pc = "send"
            /\ ops'[EndpointOp(w)].kind = "status"
            /\ ops'[EndpointOp(w)].data.timing_connected )
              => is_connected]_vars

----------------------------------------------------------------------------
(* Circuits are kept apart *)

\* the message belongs to circuit c: it names c, or it is the replay of the cache of c
belongs_to(msg, c, cache) ==
    IF msg.type = "cached_data"
    THEN c \in DOMAIN cache /\ msg.data = cache[c]
    ELSE msg.circuit_id = c

\* the cache entry of circuit c
cache_of(cache, c) == IF c \in DOMAIN cache THEN <<cache[c]>> ELSE << >>

\* C37: a websocket attached to circuit c is sent messages of c only: every send made on
\* it carries the circuit id c, or replays the cache of c, or is the pong with which its
\* own endpoint answers a ping, which is no message of any circuit; and the cache of c
\* changes only with a broadcast on c, so calls on another circuit leave it as it was.
C37_CircuitsAreApart ==
    [][ /\ \A w \in Handles :
              (sent'[w] # sent[w] /\ w \in DOMAIN connection_circuits')
                  => IF sent'[w][1].msg.type = "pong"
                     THEN ep[w].pc = "loop" /\ ep'[w].pc = "pong"
                     ELSE belongs_to(sent'[w][1].msg, connection_circuits'[w], last_data_cache')
        /\ \A raw \in RawCircuits :
              cache_of(last_data_cache', Strip(raw)) # cache_of(last_data_cache, Strip(raw))
                  => \E o \in OpIds : /\ ops[o].pc = "idle"
                                      /\ ops'[o].kind = "broadcast"
                                      /\ ops'[o].circuit = Strip(raw) ]_vars

\* wA, attached to circuit "a", was last sent a message of "a", while the other websocket
\* is attached to circuit "b" and was sent a broadcast of "b", and both circuits have a
\* cache entry
C37_BothCircuitsServed ==
    /\ "wA" \in DOMAIN connection_circuits /\ connection_circuits["wA"] = <<"a">>
    /\ "wB" \in DOMAIN connection_circuits /\ connection_circuits["wB"] = <<"b">>
    /\ sent["wA"] # <<>> /\ sent["wA"][1].msg.type = "karting_data"
    /\ sent["wB"] # <<>> /\ sent["wB"][1].msg.type = "karting_data"
    /\ sent["wB"][1].msg.circuit_id = <<"b">>
    /\ DOMAIN last_data_cache = {<<"a">>, <<"b">>}

----------------------------------------------------------------------------
(* One failing send and the other subscribers of the call *)

\* C38: within one broadcast, send_status_update or send_error call a send that fails,
\* with any error text, does not keep the call from the other subscribers of its copy:
\* every step of the send loop, the first one included, sends the message of the call to
\* one subscriber that was not tried yet and leaves all the others to be tried, the registry is not touched
\* during the loop, and the call ends, detaching the failed subscribers, only when no
\* subscriber of the copy is left.
C38_FailureDoesNotStopTheLoop ==
    [][\A o \in OpIds :
          /\ (ops[o].pc = "send" /\ ops'[o].pc = "send" /\ ops'[o] # ops[o])
                => /\ \E w \in ops[o].todo :
                         /\ ops'[o].todo = ops[o].todo \ {w}
                         /\ sent'[w][1].msg = op_message(ops[o].kind, ops[o].circuit, ops[o].data)
                   /\ circuit_connections' = circuit_connections
                   /\ connection_circuits' = connection_circuits
          /\ (ops[o].pc = "idle" /\ ops'[o].pc = "send")
                => \E w \in circuit_connections[ops'[o].circuit] :
                      /\ ops'[o].todo = circuit_connections[ops'[o].circuit] \ {w}
                      /\ sent'[w][1].msg = op_message(ops'[o].kind, ops'[o].circuit, ops'[o].data)
          /\ (ops[o].pc = "send" /\ ops'[o].pc # "send") => ops[o].todo = {} ]_vars

\* a call has sent to both subscribers of its copy: the send to one failed with a text
\* that names a closed connection, the send to the other succeeded
C38_OneFailedOneServed ==
    \E o \in OpIds, w \in Handles, v \in Handles :
        /\ w # v
        /\ ops[o].pc = "send"
        /\ ops[o].todo = {}
        /\ w \in ops[o].gone
        /\ sent[w] # <<>> /\ ~sent[w][1].ok
        /\ sent[w][1].msg = op_message(ops[o].kind, ops[o].circuit, ops[o].data)
        /\ sent[v] # <<>> /\ sent[v][1].ok
        /\ sent[v][1].msg = op_message(ops[o].kind, ops[o].circuit, ops[o].data)

\* C39: the reconnect attempt counter of a collector stays between 0 and
\* WS_MAX_RECONNECT_ATTEMPTS; every successful connection sets it to 0 and every handled
\* failure adds one to it, so it counts the failures since the last successful connection,
\* and the collector leaves its loop on the budget only when that count has reached
\* WS_MAX_RECONNECT_ATTEMPTS: never right after a connection that succeeded.
C39_BudgetCountsConsecutiveFailures ==
    [][ /\ reconnect_attempts' \in 0..WS_MAX_RECONNECT_ATTEMPTS
        /\ (cpc = "connecting" /\ cpc' = "reporting_connected") => reconnect_attempts' = 0
        /\ reconnect_attempts' # reconnect_attempts =>
               \/ reconnect_attempts' = 0
               \/ cpc = "handling_error" /\ reconnect_attempts' = reconnect_attempts + 1
        /\ (cpc # "broke" /\ cpc' = "broke") =>
               reconnect_attempts = WS_MAX_RECONNECT_ATTEMPTS ]_vars

\* C39 witness: a connection that succeeded after failed attempts (a delay was computed)
\* and the counter is back to 0
C39_ConnectedAfterFailures ==
    /\ cpc = "streaming"
    /\ is_connected
    /\ delay > 0
    /\ reconnect_attempts = 0

\* header inference of a snapshot did not succeed: the grid has no header row, or
\* _extract_column_mappings_from_header returned False
inference_fails(frame) ==
    /\ frame.init
    /\ frame.grid
    /\ \/ frame.header = HeaderNone
       \/ header_raises(frame.header)
       \/ ~auto_detection_success(frame.header)

\* C40: when the header inference of a snapshot fails (the header row has fewer than 3
\* columns, there is no header row, or reading the header raises), the parser's mapping
\* after the frame is the mapping it had before the frame (the one it was built with from
\* the circuit document), and the driver rows of the snapshot are projected with that
\* mapping: the mapped_data of the result is the rows under that mapping, and the
\* karting_data message, when one is built, carries the fields that mapping names.
C40_FailedInferenceKeepsMapping ==
    [][ (nmessages' = nmessages + 1 /\ inference_fails(last_frame')) =>
            LET before == mappings_read'
                raw_updates == html_updates(last_frame')
                projected == _apply_circuit_mappings(before, raw_updates,
                                                     update_order(last_frame'))
            IN  /\ before \in {<< >>, get_circuit_mappings(store)}
                /\ active' = before
                /\ raw_updates # << >> =>
                       /\ last_result'.success
                       /\ last_result'.mapped_data = projected
                       /\ ~has_none_key(projected) =>
                              /\ payload'.type = "karting_data"
                              /\ payload'.drivers = simple_drivers(projected) ]_vars

\* C40 witness: a snapshot whose header row cannot be read to its end was handled, with
\* its driver rows, by a parser that had a mapping, and the rows are projected with that
\* mapping
C40_FailedInferenceWithMapping ==
    /\ last_frame = Snapshot(HeaderBroken, RowsBoth)
    /\ mappings_read = detected_mappings(Header3)
    /\ active = detected_mappings(Header3)
    /\ last_result.success
    /\ last_result.mapped_data["1"].Pilote = "Ann"
    /\ payload.type = "karting_data"
    /\ "Pilote" \in DOMAIN payload.drivers["1"]

====
